---- MODULE Spec2Model ----
(***************************************************************************)
(* A model of the RV32I simulator in src/src/risc_v.rs, src/src/utils.rs   *)
(* and src/src/main.rs: the Memory, the decoder (OPCODE, EncodingVariant,  *)
(* Instruction) and the hart (RISCV::clock_cycle).                         *)
(*                                                                         *)
(* Carriers.  TLC's integers stop at 2^31 - 1, so an unsigned 32-bit value *)
(* (Word, u32, and a usize that holds an address or a value to extend) is  *)
(* a record [hi, lo] of two 16-bit limbs, value = hi * 2^16 + lo.  An i32  *)
(* is an Int in -2^31 .. 2^31 - 1.  The small usize fields of a decoded    *)
(* word (rd, rs1, funct3, the immediate pieces) and bytes and halfwords    *)
(* are plain naturals.  A panic of the Rust code is the flag `panicked`.   *)
(***************************************************************************)
EXTENDS Integers, Sequences, FiniteSets, TLC

(***************************************************************************)
(* 32-bit machine arithmetic (the Rust primitives the source uses).        *)
(***************************************************************************)

\* 2^16, the limb base.
B16 == 2 ^ 16

\* The u32 with limbs hi and lo.
W(hi, lo) == [hi |-> hi, lo |-> lo]

\* A natural below 2^31 as a u32 / usize value (`n as u32`, `n as usize`).
U(n) == [hi |-> (n \div B16) % B16, lo |-> n % B16]

\* The set of 16-bit limbs is 0 .. B16 - 1; a u32 that fits an Int, as that Int.
as_nat(w) == w.hi * B16 + w.lo

\* `w as i32`: the two's-complement reading of a u32.
as_i32(w) == IF w.hi >= 32768 THEN (w.hi - B16) * B16 + w.lo ELSE w.hi * B16 + w.lo

\* `i as u32`: the u32 with the same 32 bits as the i32 i.
as_u32(i) == [hi |-> (i \div B16) % B16, lo |-> i % B16]

\* u32::wrapping_add
wrapping_add(a, b) ==
    LET l == a.lo + b.lo
        h == a.hi + b.hi + (l \div B16)
    IN  [hi |-> h % B16, lo |-> l % B16]

\* u32::wrapping_sub
wrapping_sub(a, b) ==
    LET l == a.lo - b.lo
        h == a.hi - b.hi + (l \div B16)
    IN  [hi |-> h % B16, lo |-> l % B16]

\* u32::wrapping_add_signed
wrapping_add_signed(a, off) == wrapping_add(a, as_u32(off))

\* a < b on u32
lt_u32(a, b) == a.hi < b.hi \/ (a.hi = b.hi /\ a.lo < b.lo)

\* Bitwise operators on naturals below 2^n.
RECURSIVE and_n(_, _, _)
and_n(a, b, n) ==
    IF n = 0 THEN 0
    ELSE (IF a % 2 = 1 /\ b % 2 = 1 THEN 1 ELSE 0) + 2 * and_n(a \div 2, b \div 2, n - 1)

RECURSIVE or_n(_, _, _)
or_n(a, b, n) ==
    IF n = 0 THEN 0
    ELSE (IF a % 2 = 1 \/ b % 2 = 1 THEN 1 ELSE 0) + 2 * or_n(a \div 2, b \div 2, n - 1)

RECURSIVE xor_n(_, _, _)
xor_n(a, b, n) ==
    IF n = 0 THEN 0
    ELSE (IF a % 2 # b % 2 THEN 1 ELSE 0) + 2 * xor_n(a \div 2, b \div 2, n - 1)

\* a & b, a | b, a ^ b on u32
and32(a, b) == [hi |-> and_n(a.hi, b.hi, 16), lo |-> and_n(a.lo, b.lo, 16)]
or32(a, b)  == [hi |-> or_n(a.hi, b.hi, 16),  lo |-> or_n(a.lo, b.lo, 16)]
xor32(a, b) == [hi |-> xor_n(a.hi, b.hi, 16), lo |-> xor_n(a.lo, b.lo, 16)]

\* a << s on u32, 0 <= s <= 31 (bits shifted out are lost)
shl32(a, s) ==
    IF s >= 16
    THEN [hi |-> (a.lo % (2 ^ (32 - s))) * (2 ^ (s - 16)), lo |-> 0]
    ELSE [hi |-> ((a.hi % (2 ^ (16 - s))) * (2 ^ s)) + (a.lo \div (2 ^ (16 - s))),
          lo |-> (a.lo % (2 ^ (16 - s))) * (2 ^ s)]

\* a >> s on u32, 0 <= s <= 31 (zeros shifted in)
shr32(a, s) ==
    IF s >= 16
    THEN [hi |-> 0, lo |-> a.hi \div (2 ^ (s - 16))]
    ELSE [hi |-> a.hi \div (2 ^ s),
          lo |-> ((a.hi % (2 ^ s)) * (2 ^ (16 - s))) + (a.lo \div (2 ^ s))]

\* x >> s on i32, 0 <= s <= 31 (the sign bit shifted in)
sar32(x, s) == IF s >= 16 THEN (x \div B16) \div (2 ^ (s - 16)) ELSE x \div (2 ^ s)

\* Variant of sign_extend_u32: the value widened with zeros.
sign_extend_u32_zero(value, bits) == { [panicked |-> FALSE, value |-> as_i32(value)] }

\* utils.rs sign_extend_u32, as the set of the outcomes a build can produce;
\* value stands for the low 32 bits of the usize argument, which are all that
\* `(value << shift) as i32` keeps.  assert!(bits <= 32) panics for a width
\* above 32.  For bits = 0 the shift is 32: `>> 32` on an i32 panics where
\* overflow checks are compiled in (the debug profile) and shifts by
\* 32 % 32 = 0 where they are not, and `(value << 32) as i32` is 0.
sign_extend_u32(value, bits) ==
    IF ~(bits <= 32) THEN { [panicked |-> TRUE, value |-> 0] }
    ELSE IF bits = 0
         THEN { [panicked |-> TRUE, value |-> 0], [panicked |-> FALSE, value |-> 0] }
    ELSE { [panicked |-> FALSE,
            value |-> sar32(as_i32(shl32(value, 32 - bits)), 32 - bits)] }

\* The i32 that sign_extend_u32 returns to the decoder and to the loads,
\* which pass the widths 8, 12, 13, 16 and 21 only: no panic there.
sign_extend(value, bits) == (CHOOSE o \in sign_extend_u32(value, bits) : ~o.panicked).value

(***************************************************************************)
(* Memory: MEM_SIZE bytes, all zero at first.  The model keeps the bytes   *)
(* that are not zero: a function from their addresses (naturals) to        *)
(* 1 .. 255; every other address reads 0.                                  *)
(***************************************************************************)

MEM_SIZE == 16777216

\* Memory::new
Memory_new == [a \in {} |-> 0]

\* self.mem[i] for an index i < MEM_SIZE
mem_get(mem, i) == IF i \in DOMAIN mem THEN mem[i] ELSE 0

\* self.mem[i] = b for an index i < MEM_SIZE
mem_set(mem, i, b) ==
    IF b = 0
    THEN [a \in DOMAIN mem \ {i} |-> mem[a]]
    ELSE [a \in DOMAIN mem \cup {i} |-> IF a = i THEN b ELSE mem[a]]

\* addr <= bound for a usize addr and a natural bound below 2^31
usize_le(addr, bound) == addr.hi < 32768 /\ as_nat(addr) <= bound

\* addr % m for a usize addr and m a power of two up to 2^16
usize_mod(addr, m) == addr.lo % m

\* Variant of u32_to_le_bytes: the most significant byte first.
u32_to_be_bytes(v) == << v.hi \div 256, v.hi % 256, v.lo \div 256, v.lo % 256 >>

\* Variant of u16_from_le_bytes: the first byte taken as the high one.
u16_from_be_bytes(b) == b[1] * 256 + b[2]

\* u32::from_le_bytes, u32::to_le_bytes
u32_from_le_bytes(b) == [hi |-> b[4] * 256 + b[3], lo |-> b[2] * 256 + b[1]]
u32_to_le_bytes(v) == << v.lo % 256, v.lo \div 256, v.hi % 256, v.hi \div 256 >>

\* u16::from_le_bytes, u16::to_le_bytes
u16_from_le_bytes(b) == b[2] * 256 + b[1]

\* Variant of u16_to_le_bytes: the high byte first.
u16_to_be_bytes(v) == << v \div 256, v % 256 >>

u16_to_le_bytes(v) == << v % 256, v \div 256 >>

\* Variant of index_ok: the first byte past the memory admitted.
index_ok_inclusive(index) == usize_le(index, MEM_SIZE)

\* impl Index<usize> for Memory: the assertion, then the byte.
index_ok(index) == usize_le(index, MEM_SIZE - 1)
index(mem, i) == [panicked |-> ~index_ok(i),
                  value |-> IF index_ok(i) THEN mem_get(mem, as_nat(i)) ELSE 0]

\* impl IndexMut<usize> for Memory, used as mem[index] = value
index_mut(mem, i, value) ==
    [panicked |-> ~index_ok(i),
     mem |-> IF index_ok(i) THEN mem_set(mem, as_nat(i), value) ELSE mem]

\* Variant of fetch_word_ok: the alignment assertion left out.
fetch_word_ok_unaligned(addr) == usize_le(addr, MEM_SIZE - 4)

\* Memory::fetch_word: the two assertions of lines 28-33
fetch_word_ok(addr) == usize_mod(addr, 4) = 0 /\ usize_le(addr, MEM_SIZE - 4)

fetch_word(mem, addr) ==
    IF ~fetch_word_ok(addr) THEN [panicked |-> TRUE, value |-> U(0)]
    ELSE LET a == as_nat(addr)
         IN  [panicked |-> FALSE,
              value |-> u32_from_le_bytes(<< mem_get(mem, a), mem_get(mem, a + 1),
                                             mem_get(mem, a + 2), mem_get(mem, a + 3) >>)]

\* Memory::store_word
store_word(mem, addr, value) ==
    IF ~(usize_mod(addr, 4) = 0 /\ usize_le(addr, MEM_SIZE - 4))
    THEN [panicked |-> TRUE, mem |-> mem]
    ELSE LET a == as_nat(addr)
             bytes == u32_to_le_bytes(value)
         IN  [panicked |-> FALSE,
              mem |-> mem_set(mem_set(mem_set(mem_set(mem, a, bytes[1]),
                                      a + 1, bytes[2]), a + 2, bytes[3]), a + 3, bytes[4])]

\* Memory::fetch_halfword
fetch_halfword(mem, addr) ==
    IF ~(usize_mod(addr, 2) = 0 /\ usize_le(addr, MEM_SIZE - 2))
    THEN [panicked |-> TRUE, value |-> 0]
    ELSE LET a == as_nat(addr)
         IN  [panicked |-> FALSE,
              value |-> u16_from_le_bytes(<< mem_get(mem, a), mem_get(mem, a + 1) >>)]

\* Memory::store_halfword
store_halfword(mem, addr, value) ==
    IF ~(usize_mod(addr, 2) = 0 /\ usize_le(addr, MEM_SIZE - 2))
    THEN [panicked |-> TRUE, mem |-> mem]
    ELSE LET a == as_nat(addr)
             bytes == u16_to_le_bytes(value)
         IN  [panicked |-> FALSE,
              mem |-> mem_set(mem_set(mem, a, bytes[1]), a + 1, bytes[2])]

(***************************************************************************)
(* The decoder: OPCODE, EncodingVariant::get_encoding and                  *)
(* Instruction::parse_instruction.                                         *)
(***************************************************************************)

\* OPCODE::value
OPCODE_value(op) ==
    CASE op = "OPIMM"  -> 19     \* 0b0010011
      [] op = "LUI"    -> 55     \* 0b0110111
      [] op = "AUIPC"  -> 23     \* 0b0010111
      [] op = "OPRR"   -> 51     \* 0b0110011
      [] op = "JAL"    -> 111    \* 0b1101111
      [] op = "JALR"   -> 103    \* 0b1100111
      [] op = "BRANCH" -> 99     \* 0b1100011
      [] op = "LOAD"   -> 3      \* 0b0000011
      [] op = "STORE"  -> 35     \* 0b0100011
      [] op = "FENCE"  -> 15     \* 0b0001111
      [] op = "SYSTEM" -> 115    \* 0b1110011

\* Variant of OPCODE_from_value: the last arm takes the value as OPIMM.
OPCODE_from_value_lenient(value) ==
    CASE value = OPCODE_value("LUI")    -> "LUI"
      [] value = OPCODE_value("AUIPC")  -> "AUIPC"
      [] value = OPCODE_value("OPRR")   -> "OPRR"
      [] value = OPCODE_value("JAL")    -> "JAL"
      [] value = OPCODE_value("JALR")   -> "JALR"
      [] value = OPCODE_value("BRANCH") -> "BRANCH"
      [] value = OPCODE_value("LOAD")   -> "LOAD"
      [] value = OPCODE_value("STORE")  -> "STORE"
      [] value = OPCODE_value("FENCE")  -> "FENCE"
      [] value = OPCODE_value("SYSTEM") -> "SYSTEM"
      [] OTHER -> "OPIMM"

\* OPCODE::from_value: the first arm that matches, "None" when none does.
OPCODE_from_value(value) ==
    CASE value = OPCODE_value("OPIMM")  -> "OPIMM"
      [] value = OPCODE_value("LUI")    -> "LUI"
      [] value = OPCODE_value("AUIPC")  -> "AUIPC"
      [] value = OPCODE_value("OPRR")   -> "OPRR"
      [] value = OPCODE_value("JAL")    -> "JAL"
      [] value = OPCODE_value("JALR")   -> "JALR"
      [] value = OPCODE_value("BRANCH") -> "BRANCH"
      [] value = OPCODE_value("LOAD")   -> "LOAD"
      [] value = OPCODE_value("STORE")  -> "STORE"
      [] value = OPCODE_value("FENCE")  -> "FENCE"
      [] value = OPCODE_value("SYSTEM") -> "SYSTEM"
      [] OTHER -> "None"

\* ((instruction >> k) & mask) as usize, for a mask below 2^31
bits_of(instruction, k, mask) == as_nat(and32(shr32(instruction, k), U(mask)))

\* Variant of get_opcode: a mask of eight bits.
get_opcode_8bits(instruction) == OPCODE_from_value(bits_of(instruction, 0, 255))

\* OPCODE::get_opcode
get_opcode(instruction) == OPCODE_from_value(bits_of(instruction, 0, 127))

\* The IType fields, as the OPIMM, JALR and LOAD arms of get_encoding extract them.
IType(instruction, opcode) ==
    [variant |-> "IType",
     imm     |-> bits_of(instruction, 20, 4095),
     rs1     |-> bits_of(instruction, 15, 31),
     funct3  |-> bits_of(instruction, 12, 7),
     rd      |-> bits_of(instruction, 7, 31),
     opcode  |-> opcode]

\* The UType fields, as the LUI and AUIPC arms extract them.
UType(instruction, opcode) ==
    [variant   |-> "UType",
     imm_31_12 |-> bits_of(instruction, 12, 1048575),
     rd        |-> bits_of(instruction, 7, 31),
     opcode    |-> opcode]

\* The match of get_encoding on the opcode (lines 199-267); variant "panic" is
\* the expect() on an unrecognized opcode or the todo!() of FENCE and SYSTEM.
encoding_of(instruction, opcode) ==
        CASE opcode = "None" -> [variant |-> "panic"]
          [] opcode = "OPIMM" -> IType(instruction, opcode)
          [] opcode = "LUI"   -> UType(instruction, opcode)
          [] opcode = "AUIPC" -> UType(instruction, opcode)
          [] opcode = "OPRR"  ->
                [variant |-> "RType",
                 funct7  |-> bits_of(instruction, 25, 127),
                 rs2     |-> bits_of(instruction, 20, 31),
                 rs1     |-> bits_of(instruction, 15, 31),
                 funct3  |-> bits_of(instruction, 12, 7),
                 rd      |-> bits_of(instruction, 7, 31),
                 opcode  |-> opcode]
          [] opcode = "JAL"   ->
                [variant   |-> "JType",
                 imm_20    |-> bits_of(instruction, 31, 1),
                 imm_10_1  |-> bits_of(instruction, 21, 1023),
                 imm_11    |-> bits_of(instruction, 20, 1),
                 imm_19_12 |-> bits_of(instruction, 12, 255),
                 rd        |-> bits_of(instruction, 7, 31),
                 opcode    |-> opcode]
          [] opcode = "JALR"  -> IType(instruction, opcode)
          [] opcode = "BRANCH" ->
                [variant  |-> "BType",
                 imm_12   |-> bits_of(instruction, 31, 1),
                 imm_10_5 |-> bits_of(instruction, 25, 63),
                 rs2      |-> bits_of(instruction, 20, 31),
                 rs1      |-> bits_of(instruction, 15, 31),
                 funct3   |-> bits_of(instruction, 12, 7),
                 imm_4_1  |-> bits_of(instruction, 8, 15),
                 imm_11   |-> bits_of(instruction, 7, 1),
                 opcode   |-> opcode]
          [] opcode = "LOAD"  -> IType(instruction, opcode)
          [] opcode = "STORE" ->
                [variant  |-> "SType",
                 imm_11_5 |-> bits_of(instruction, 25, 127),
                 rs2      |-> bits_of(instruction, 20, 31),
                 rs1      |-> bits_of(instruction, 15, 31),
                 funct3   |-> bits_of(instruction, 12, 7),
                 imm_4_0  |-> bits_of(instruction, 7, 31),
                 opcode   |-> opcode]
          [] opcode = "FENCE"  -> [variant |-> "panic"]
          [] opcode = "SYSTEM" -> [variant |-> "panic"]

\* EncodingVariant::get_encoding
get_encoding(instruction) == encoding_of(instruction, get_opcode(instruction))

(* The constants of impl Instruction, risc_v.rs lines 319-374. *)
ADDI_FUNCT3 == 0
SLTI_FUNCT3 == 2
SLTIU_FUNCT3 == 3
ANDI_FUNCT3 == 7
ORI_FUNCT3 == 6
XORI_FUNCT3 == 4
SLLI_FUNCT3 == 1
SRLI_FUNCT3 == 5
SRAI_FUNCT3 == 5
ADD_FUNCT3 == 0
ADD_FUNCT7 == 0
SUB_FUNCT3 == 0
SUB_FUNCT7 == 32
SLT_FUNCT3 == 2
SLT_FUNCT7 == 0
SLTU_FUNCT3 == 3
SLTU_FUNCT7 == 0
AND_FUNCT3 == 7
AND_FUNCT7 == 0
OR_FUNCT3 == 6
OR_FUNCT7 == 0
XOR_FUNCT3 == 4
XOR_FUNCT7 == 0
SLL_FUNCT3 == 1
SLL_FUNCT7 == 0
SRL_FUNCT3 == 5
SRL_FUNCT7 == 0
SRA_FUNCT3 == 5
SRA_FUNCT7 == 32
JALR_FUNCT3 == 0
BEQ_FUNCT3 == 0
BNE_FUNCT3 == 1
BLT_FUNCT3 == 4
BLTU_FUNCT3 == 6
BGE_FUNCT3 == 5
BGEU_FUNCT3 == 7
LW_FUNCT3 == 2
LH_FUNCT3 == 1
LHU_FUNCT3 == 5
LB_FUNCT3 == 0
LBU_FUNCT3 == 4
SW_FUNCT3 == 2
SH_FUNCT3 == 1
SB_FUNCT3 == 0
OPIMM_BITS == 12
JAL_BITS == 21
JALR_BITS == 12
BRANCH_BITS == 13
LOAD_BITS == 12
STORE_BITS == 12

\* a << k, a >> k, a | b and a & b on usize fields (the pieces never overlap past bit 20)
usize_shl(a, k) == a * (2 ^ k)
usize_shr(a, k) == a \div (2 ^ k)
usize_and(a, b) == and_n(a, b, 21)
usize_or(a, b) == or_n(a, b, 21)

\* The IType arm of parse_instruction (lines 378-467): the first test that
\* holds decides; op "panic" is the final panic!().
parse_IType(e) ==
    LET imm == e.imm
        rs1 == e.rs1
        rd == e.rd
        funct3 == e.funct3
        opcode == e.opcode
    IN  IF opcode = "OPIMM" /\ funct3 = ADDI_FUNCT3 THEN
            [op |-> "ADDI", imm |-> sign_extend(U(imm), OPIMM_BITS), rs1 |-> rs1, rd |-> rd]
        ELSE IF opcode = "OPIMM" /\ funct3 = SLTI_FUNCT3 THEN
            [op |-> "SLTI", imm |-> sign_extend(U(imm), OPIMM_BITS), rs1 |-> rs1, rd |-> rd]
        ELSE IF opcode = "OPIMM" /\ funct3 = SLTIU_FUNCT3 THEN
            [op |-> "STLIU", imm |-> as_u32(sign_extend(U(imm), OPIMM_BITS)), rs1 |-> rs1, rd |-> rd]
        ELSE IF opcode = "OPIMM" /\ funct3 = ANDI_FUNCT3 THEN
            [op |-> "ANDI", imm |-> as_u32(sign_extend(U(imm), OPIMM_BITS)), rs1 |-> rs1, rd |-> rd]
        ELSE IF opcode = "OPIMM" /\ funct3 = ORI_FUNCT3 THEN
            [op |-> "ORI", imm |-> as_u32(sign_extend(U(imm), OPIMM_BITS)), rs1 |-> rs1, rd |-> rd]
        ELSE IF opcode = "OPIMM" /\ funct3 = XORI_FUNCT3 THEN
            [op |-> "XORI", imm |-> as_u32(sign_extend(U(imm), OPIMM_BITS)), rs1 |-> rs1, rd |-> rd]
        ELSE IF opcode = "OPIMM" /\ funct3 = SLLI_FUNCT3 THEN
            [op |-> "SLLI", shamt |-> usize_and(imm, 31), rs1 |-> rs1, rd |-> rd]
        ELSE IF opcode = "OPIMM" /\ funct3 = SRLI_FUNCT3 /\ usize_shr(imm, 5) = 0 THEN
            [op |-> "SRLI", shamt |-> usize_and(imm, 31), rs1 |-> rs1, rd |-> rd]
        ELSE IF opcode = "OPIMM" /\ funct3 = SRAI_FUNCT3 /\ usize_shr(imm, 5) = 32 THEN
            [op |-> "SRAI", shamt |-> usize_and(imm, 31), rs1 |-> rs1, rd |-> rd]
        ELSE IF opcode = "JALR" /\ funct3 = JALR_FUNCT3 THEN
            [op |-> "JALR", offset |-> sign_extend(U(imm), JALR_BITS), rs1 |-> rs1, rd |-> rd]
        ELSE IF opcode = "LOAD" /\ funct3 = LW_FUNCT3 THEN
            [op |-> "LW", offset |-> sign_extend(U(imm), LOAD_BITS), rs1 |-> rs1, rd |-> rd]
        ELSE IF opcode = "LOAD" /\ funct3 = LH_FUNCT3 THEN
            [op |-> "LH", offset |-> sign_extend(U(imm), LOAD_BITS), rs1 |-> rs1, rd |-> rd]
        ELSE IF opcode = "LOAD" /\ funct3 = LHU_FUNCT3 THEN
            [op |-> "LHU", offset |-> sign_extend(U(imm), LOAD_BITS), rs1 |-> rs1, rd |-> rd]
        ELSE IF opcode = "LOAD" /\ funct3 = LB_FUNCT3 THEN
            [op |-> "LB", offset |-> sign_extend(U(imm), LOAD_BITS), rs1 |-> rs1, rd |-> rd]
        ELSE IF opcode = "LOAD" /\ funct3 = LBU_FUNCT3 THEN
            [op |-> "LBU", offset |-> sign_extend(U(imm), LOAD_BITS), rs1 |-> rs1, rd |-> rd]
        ELSE [op |-> "panic"]

\* The UType arm (lines 468-482).
parse_UType(e) ==
    IF e.opcode = "LUI" THEN [op |-> "LUI", imm |-> shl32(U(e.imm_31_12), 12), rd |-> e.rd]
    ELSE IF e.opcode = "AUIPC" THEN [op |-> "AUIPC", imm |-> shl32(U(e.imm_31_12), 12), rd |-> e.rd]
    ELSE [op |-> "panic"]

\* The RType arm (lines 483-544); op "panic" is the final todo!().
parse_RType(e) ==
    LET f3 == e.funct3
        f7 == e.funct7
        r(name) == [op |-> name, rs1 |-> e.rs1, rs2 |-> e.rs2, rd |-> e.rd]
    IN  IF e.opcode = "OPRR" /\ f3 = ADD_FUNCT3 /\ f7 = ADD_FUNCT7 THEN r("ADD")
        ELSE IF e.opcode = "OPRR" /\ f3 = SUB_FUNCT3 /\ f7 = SUB_FUNCT7 THEN r("SUB")
        ELSE IF e.opcode = "OPRR" /\ f3 = SLT_FUNCT3 /\ f7 = SLT_FUNCT7 THEN r("SLT")
        ELSE IF e.opcode = "OPRR" /\ f3 = SLTU_FUNCT3 /\ f7 = SLTU_FUNCT7 THEN r("SLTU")
        ELSE IF e.opcode = "OPRR" /\ f3 = AND_FUNCT3 /\ f7 = AND_FUNCT7 THEN r("AND")
        ELSE IF e.opcode = "OPRR" /\ f3 = OR_FUNCT3 /\ f7 = OR_FUNCT7 THEN r("OR")
        ELSE IF e.opcode = "OPRR" /\ f3 = XOR_FUNCT3 /\ f7 = XOR_FUNCT7 THEN r("XOR")
        ELSE IF e.opcode = "OPRR" /\ f3 = SLL_FUNCT3 /\ f7 = SLL_FUNCT7 THEN r("SLL")
        ELSE IF e.opcode = "OPRR" /\ f3 = SRL_FUNCT3 /\ f7 = SRL_FUNCT7 THEN r("SRL")
        ELSE IF e.opcode = "OPRR" /\ f3 = SRA_FUNCT3 /\ f7 = SRA_FUNCT7 THEN r("SRA")
        ELSE [op |-> "panic"]

\* The JType arm (lines 545-562).
\* Variant of parse_JType: imm_10_1 placed at bit 0 of the offset.
parse_JType_unshifted(e) ==
    IF e.opcode = "JAL" THEN
        [op |-> "JAL",
         offset |-> sign_extend(
                        U(usize_or(usize_or(usize_or(usize_shl(e.imm_20, 20),
                                                     usize_shl(e.imm_19_12, 12)),
                                            usize_shl(e.imm_11, 11)),
                                   e.imm_10_1)), JAL_BITS),
         rd |-> e.rd]
    ELSE [op |-> "panic"]

parse_JType(e) ==
    IF e.opcode = "JAL" THEN
        [op |-> "JAL",
         offset |-> sign_extend(
                        U(usize_or(usize_or(usize_or(usize_shl(e.imm_20, 20),
                                                     usize_shl(e.imm_19_12, 12)),
                                            usize_shl(e.imm_11, 11)),
                                   usize_shl(e.imm_10_1, 1))), JAL_BITS),
         rd |-> e.rd]
    ELSE [op |-> "panic"]

\* The BType arm (lines 563-592).
parse_BType(e) ==
    LET offset == sign_extend(
                      U(usize_or(usize_or(usize_or(usize_shl(e.imm_12, 12),
                                                   usize_shl(e.imm_11, 11)),
                                          usize_shl(e.imm_10_5, 5)),
                                 usize_shl(e.imm_4_1, 1))), BRANCH_BITS)
        b(name) == [op |-> name, offset |-> offset, rs1 |-> e.rs1, rs2 |-> e.rs2]
    IN  IF e.opcode = "BRANCH" /\ e.funct3 = BEQ_FUNCT3 THEN b("BEQ")
        ELSE IF e.opcode = "BRANCH" /\ e.funct3 = BNE_FUNCT3 THEN b("BNE")
        ELSE IF e.opcode = "BRANCH" /\ e.funct3 = BLT_FUNCT3 THEN b("BLT")
        ELSE IF e.opcode = "BRANCH" /\ e.funct3 = BLTU_FUNCT3 THEN b("BLTU")
        ELSE IF e.opcode = "BRANCH" /\ e.funct3 = BGE_FUNCT3 THEN b("BGE")
        ELSE IF e.opcode = "BRANCH" /\ e.funct3 = BGEU_FUNCT3 THEN b("BGEU")
        ELSE [op |-> "panic"]

\* Variant of parse_SType: a funct3 that is neither SW nor SH taken as SB.
parse_SType_lenient(e) ==
    LET offset == sign_extend(U(usize_or(usize_shl(e.imm_11_5, 5), e.imm_4_0)), STORE_BITS)
        st(name) == [op |-> name, offset |-> offset, rs1 |-> e.rs1, rs2 |-> e.rs2]
    IN  IF e.opcode = "STORE" /\ e.funct3 = SW_FUNCT3 THEN st("SW")
        ELSE IF e.opcode = "STORE" /\ e.funct3 = SH_FUNCT3 THEN st("SH")
        ELSE st("SB")

\* The SType arm (lines 593-612).
parse_SType(e) ==
    LET offset == sign_extend(U(usize_or(usize_shl(e.imm_11_5, 5), e.imm_4_0)), STORE_BITS)
        st(name) == [op |-> name, offset |-> offset, rs1 |-> e.rs1, rs2 |-> e.rs2]
    IN  IF e.opcode = "STORE" /\ e.funct3 = SW_FUNCT3 THEN st("SW")
        ELSE IF e.opcode = "STORE" /\ e.funct3 = SH_FUNCT3 THEN st("SH")
        ELSE IF e.opcode = "STORE" /\ e.funct3 = SB_FUNCT3 THEN st("SB")
        ELSE [op |-> "panic"]

\* Instruction::parse_instruction
parse_instruction(encoding) ==
    CASE encoding.variant = "IType" -> parse_IType(encoding)
      [] encoding.variant = "UType" -> parse_UType(encoding)
      [] encoding.variant = "RType" -> parse_RType(encoding)
      [] encoding.variant = "JType" -> parse_JType(encoding)
      [] encoding.variant = "BType" -> parse_BType(encoding)
      [] encoding.variant = "SType" -> parse_SType(encoding)

\* Variant of parse_encoding: a word that get_encoding does not encode taken
\* as the no-op ADDI x0,x0,0.
parse_encoding_nop(encoding) ==
    IF encoding.variant = "panic" THEN [op |-> "ADDI", imm |-> 0, rs1 |-> 0, rd |-> 0]
    ELSE parse_instruction(encoding)

\* parse_instruction, or op "panic" when get_encoding has panicked already.
parse_encoding(encoding) ==
    IF encoding.variant = "panic" THEN [op |-> "panic"]
    ELSE parse_instruction(encoding)

\* Variant of parse_instruction_conditions: the tests of the top seven bits
\* left out of SRLI and SRAI, which share funct3 101.
parse_instruction_conditions_overlapping(e) ==
    IF e.variant = "IType" /\ e.opcode = "OPIMM" /\ e.funct3 = SRLI_FUNCT3
    THEN {"SRLI", "SRAI"}
    ELSE {}

\* The mnemonics whose test in parse_instruction holds for an encoding, each
\* test as the source writes it and taken on its own, whatever the order of
\* the else-if chain.
parse_instruction_conditions(e) ==
    LET when(c, name) == IF c THEN {name} ELSE {}
    IN  CASE e.variant = "IType" ->
                when(e.opcode = "OPIMM" /\ e.funct3 = ADDI_FUNCT3, "ADDI")
                \cup when(e.opcode = "OPIMM" /\ e.funct3 = SLTI_FUNCT3, "SLTI")
                \cup when(e.opcode = "OPIMM" /\ e.funct3 = SLTIU_FUNCT3, "STLIU")
                \cup when(e.opcode = "OPIMM" /\ e.funct3 = ANDI_FUNCT3, "ANDI")
                \cup when(e.opcode = "OPIMM" /\ e.funct3 = ORI_FUNCT3, "ORI")
                \cup when(e.opcode = "OPIMM" /\ e.funct3 = XORI_FUNCT3, "XORI")
                \cup when(e.opcode = "OPIMM" /\ e.funct3 = SLLI_FUNCT3, "SLLI")
                \cup when(e.opcode = "OPIMM" /\ e.funct3 = SRLI_FUNCT3
                          /\ usize_shr(e.imm, 5) = 0, "SRLI")
                \cup when(e.opcode = "OPIMM" /\ e.funct3 = SRAI_FUNCT3
                          /\ usize_shr(e.imm, 5) = 32, "SRAI")
                \cup when(e.opcode = "JALR" /\ e.funct3 = JALR_FUNCT3, "JALR")
                \cup when(e.opcode = "LOAD" /\ e.funct3 = LW_FUNCT3, "LW")
                \cup when(e.opcode = "LOAD" /\ e.funct3 = LH_FUNCT3, "LH")
                \cup when(e.opcode = "LOAD" /\ e.funct3 = LHU_FUNCT3, "LHU")
                \cup when(e.opcode = "LOAD" /\ e.funct3 = LB_FUNCT3, "LB")
                \cup when(e.opcode = "LOAD" /\ e.funct3 = LBU_FUNCT3, "LBU")
          [] e.variant = "UType" ->
                when(e.opcode = "LUI", "LUI") \cup when(e.opcode = "AUIPC", "AUIPC")
          [] e.variant = "RType" ->
                when(e.opcode = "OPRR" /\ e.funct3 = ADD_FUNCT3 /\ e.funct7 = ADD_FUNCT7, "ADD")
                \cup when(e.opcode = "OPRR" /\ e.funct3 = SUB_FUNCT3 /\ e.funct7 = SUB_FUNCT7, "SUB")
                \cup when(e.opcode = "OPRR" /\ e.funct3 = SLT_FUNCT3 /\ e.funct7 = SLT_FUNCT7, "SLT")
                \cup when(e.opcode = "OPRR" /\ e.funct3 = SLTU_FUNCT3 /\ e.funct7 = SLTU_FUNCT7, "SLTU")
                \cup when(e.opcode = "OPRR" /\ e.funct3 = AND_FUNCT3 /\ e.funct7 = AND_FUNCT7, "AND")
                \cup when(e.opcode = "OPRR" /\ e.funct3 = OR_FUNCT3 /\ e.funct7 = OR_FUNCT7, "OR")
                \cup when(e.opcode = "OPRR" /\ e.funct3 = XOR_FUNCT3 /\ e.funct7 = XOR_FUNCT7, "XOR")
                \cup when(e.opcode = "OPRR" /\ e.funct3 = SLL_FUNCT3 /\ e.funct7 = SLL_FUNCT7, "SLL")
                \cup when(e.opcode = "OPRR" /\ e.funct3 = SRL_FUNCT3 /\ e.funct7 = SRL_FUNCT7, "SRL")
                \cup when(e.opcode = "OPRR" /\ e.funct3 = SRA_FUNCT3 /\ e.funct7 = SRA_FUNCT7, "SRA")
          [] e.variant = "JType" -> when(e.opcode = "JAL", "JAL")
          [] e.variant = "BType" ->
                when(e.opcode = "BRANCH" /\ e.funct3 = BEQ_FUNCT3, "BEQ")
                \cup when(e.opcode = "BRANCH" /\ e.funct3 = BNE_FUNCT3, "BNE")
                \cup when(e.opcode = "BRANCH" /\ e.funct3 = BLT_FUNCT3, "BLT")
                \cup when(e.opcode = "BRANCH" /\ e.funct3 = BLTU_FUNCT3, "BLTU")
                \cup when(e.opcode = "BRANCH" /\ e.funct3 = BGE_FUNCT3, "BGE")
                \cup when(e.opcode = "BRANCH" /\ e.funct3 = BGEU_FUNCT3, "BGEU")
          [] e.variant = "SType" ->
                when(e.opcode = "STORE" /\ e.funct3 = SW_FUNCT3, "SW")
                \cup when(e.opcode = "STORE" /\ e.funct3 = SH_FUNCT3, "SH")
                \cup when(e.opcode = "STORE" /\ e.funct3 = SB_FUNCT3, "SB")
          [] OTHER -> {}

\* The decoding execute() starts with (lines 658-659).
decode(instruction) == parse_encoding(get_encoding(instruction))

(***************************************************************************)
(* The hart.  A RISCV value with the Memory it steps on is the record      *)
(* [reg, pc, current_instruction, mem, panicked]: reg maps 0 .. 31 to u32, *)
(* and panicked says that an assertion, expect, todo or panic of the step  *)
(* fired, with the fields as the code had left them at that point.         *)
(***************************************************************************)

XLEN == 32

\* RISCV::reset, with the Memory it will step on
RISCV_reset(mem) ==
    [reg |-> [r \in 0 .. XLEN - 1 |-> U(0)],
     pc |-> U(0),
     current_instruction |-> U(0),
     mem |-> mem,
     panicked |-> FALSE]

\* RISCV::new_, with the Memory it will step on
RISCV_new_(mem) ==
    [reg |-> [r \in 0 .. XLEN - 1 |-> U(0)],
     pc |-> U(4096),
     current_instruction |-> U(0),
     mem |-> mem,
     panicked |-> FALSE]

\* assert!(cond, ..) in the middle of an arm: what was written stays written
panic(s) == [s EXCEPT !.panicked = TRUE]

\* RISCV::fetch_instruction
fetch_instruction(s) ==
    LET f == fetch_word(s.mem, s.pc)
    IN  IF f.panicked THEN panic(s)
        ELSE [s EXCEPT !.current_instruction = f.value]

\* Variant of increment_pc: the pc advanced a second time, as if the fetch
\* had advanced it too.
increment_pc_twice(s) == [s EXCEPT !.pc = wrapping_add(s.pc, U(8))]

\* Variant of increment_pc: a step of two bytes.
increment_pc_by2(s) == [s EXCEPT !.pc = wrapping_add(s.pc, U(2))]

\* RISCV::increment_pc
increment_pc(s) == [s EXCEPT !.pc = wrapping_add(s.pc, U(4))]

\* Variant of exec_ADDI: the test rd != 0 left out.
exec_ADDI_unguarded(s, i) ==
    [s EXCEPT !.reg[i.rd] = wrapping_add(s.reg[i.rs1], as_u32(i.imm))]

\* The arms of the match in RISCV::execute, one operator each.
exec_ADDI(s, i) ==
    IF i.rd # 0
    THEN [s EXCEPT !.reg[i.rd] = wrapping_add(s.reg[i.rs1], as_u32(i.imm))]
    ELSE s

exec_SLTI(s, i) ==
    IF i.rd # 0
    THEN [s EXCEPT !.reg[i.rd] = IF as_i32(s.reg[i.rs1]) < i.imm THEN U(1) ELSE U(0)]
    ELSE s

\* Variant of exec_STLIU: the comparison made on i32 values, as SLTI makes it.
exec_STLIU_signed(s, i) ==
    IF i.rd # 0
    THEN [s EXCEPT !.reg[i.rd] =
              IF as_i32(s.reg[i.rs1]) < as_i32(i.imm) THEN U(1) ELSE U(0)]
    ELSE s

exec_STLIU(s, i) ==
    IF i.rd # 0
    THEN [s EXCEPT !.reg[i.rd] = IF lt_u32(s.reg[i.rs1], i.imm) THEN U(1) ELSE U(0)]
    ELSE s

exec_ANDI(s, i) ==
    IF i.rd # 0 THEN [s EXCEPT !.reg[i.rd] = and32(s.reg[i.rs1], i.imm)] ELSE s

exec_ORI(s, i) ==
    IF i.rd # 0 THEN [s EXCEPT !.reg[i.rd] = or32(s.reg[i.rs1], i.imm)] ELSE s

exec_XORI(s, i) ==
    IF i.rd # 0 THEN [s EXCEPT !.reg[i.rd] = xor32(s.reg[i.rs1], i.imm)] ELSE s

exec_SLLI(s, i) ==
    IF i.rd # 0 THEN [s EXCEPT !.reg[i.rd] = shl32(s.reg[i.rs1], i.shamt)] ELSE s

exec_SRLI(s, i) ==
    IF i.rd # 0 THEN [s EXCEPT !.reg[i.rd] = shr32(s.reg[i.rs1], i.shamt)] ELSE s

exec_SRAI(s, i) ==
    IF i.rd # 0
    THEN [s EXCEPT !.reg[i.rd] = as_u32(sar32(as_i32(s.reg[i.rs1]), i.shamt))]
    ELSE s

exec_LUI(s, i) ==
    IF i.rd # 0 THEN [s EXCEPT !.reg[i.rd] = i.imm] ELSE s

\* Variant of exec_AUIPC: the address of the next instruction as the base.
exec_AUIPC_next(s, i) ==
    IF i.rd # 0
    THEN [s EXCEPT !.reg[i.rd] = wrapping_add(wrapping_add(s.pc, U(4)), i.imm)]
    ELSE s

exec_AUIPC(s, i) ==
    IF i.rd # 0 THEN [s EXCEPT !.reg[i.rd] = wrapping_add(s.pc, i.imm)] ELSE s

\* Variant of exec_ADD: `+` with the overflow check of a debug build.
exec_ADD_checked(s, i) ==
    IF i.rd # 0
    THEN IF lt_u32(wrapping_add(s.reg[i.rs1], s.reg[i.rs2]), s.reg[i.rs1])
         THEN panic(s)
         ELSE [s EXCEPT !.reg[i.rd] = wrapping_add(s.reg[i.rs1], s.reg[i.rs2])]
    ELSE s

\* Variant of exec_ADD: the bitwise or of the operands.
exec_ADD_or(s, i) ==
    IF i.rd # 0
    THEN [s EXCEPT !.reg[i.rd] = or32(s.reg[i.rs1], s.reg[i.rs2])]
    ELSE s

exec_ADD(s, i) ==
    IF i.rd # 0
    THEN [s EXCEPT !.reg[i.rd] = wrapping_add(s.reg[i.rs1], s.reg[i.rs2])]
    ELSE s

exec_SUB(s, i) ==
    IF i.rd # 0
    THEN [s EXCEPT !.reg[i.rd] = wrapping_sub(s.reg[i.rs1], s.reg[i.rs2])]
    ELSE s

exec_SLT(s, i) ==
    IF i.rd # 0
    THEN [s EXCEPT !.reg[i.rd] =
              IF as_i32(s.reg[i.rs1]) < as_i32(s.reg[i.rs2]) THEN U(1) ELSE U(0)]
    ELSE s

exec_SLTU(s, i) ==
    IF i.rd # 0
    THEN [s EXCEPT !.reg[i.rd] =
              IF lt_u32(s.reg[i.rs1], s.reg[i.rs2]) THEN U(1) ELSE U(0)]
    ELSE s

exec_AND(s, i) ==
    IF i.rd # 0 THEN [s EXCEPT !.reg[i.rd] = and32(s.reg[i.rs1], s.reg[i.rs2])] ELSE s

exec_OR(s, i) ==
    IF i.rd # 0 THEN [s EXCEPT !.reg[i.rd] = or32(s.reg[i.rs1], s.reg[i.rs2])] ELSE s

exec_XOR(s, i) ==
    IF i.rd # 0 THEN [s EXCEPT !.reg[i.rd] = xor32(s.reg[i.rs1], s.reg[i.rs2])] ELSE s

exec_SLL(s, i) ==
    IF i.rd # 0
    THEN LET shamt == as_nat(and32(s.reg[i.rs2], U(31)))
         IN  [s EXCEPT !.reg[i.rd] = shl32(s.reg[i.rs1], shamt)]
    ELSE s

exec_SRL(s, i) ==
    IF i.rd # 0
    THEN LET shamt == as_nat(and32(s.reg[i.rs2], U(31)))
         IN  [s EXCEPT !.reg[i.rd] = shr32(s.reg[i.rs1], shamt)]
    ELSE s

\* Variant of exec_SRA: the shift made on the u32, as SRL makes it.
exec_SRA_logical(s, i) ==
    IF i.rd # 0
    THEN LET shamt == as_nat(and32(s.reg[i.rs2], U(31)))
         IN  [s EXCEPT !.reg[i.rd] = shr32(s.reg[i.rs1], shamt)]
    ELSE s

exec_SRA(s, i) ==
    IF i.rd # 0
    THEN LET shamt == as_nat(and32(s.reg[i.rs2], U(31)))
         IN  [s EXCEPT !.reg[i.rd] = as_u32(sar32(as_i32(s.reg[i.rs1]), shamt))]
    ELSE s

\* Variant of link: the address of the jump itself as the return address.
link_current(s, rd) ==
    IF rd # 0 THEN [s EXCEPT !.reg[rd] = s.pc] ELSE s

\* The link write of JAL and JALR (lines 783-785 and 794-796).
link(s, rd) ==
    IF rd # 0 THEN [s EXCEPT !.reg[rd] = wrapping_add(s.pc, U(4))] ELSE s

\* Variants of jump_to: the assertion left out; the assertion on 2-byte
\* alignment only; the target not lowered by 4 before the common increment.
jump_to_unchecked(s, target_address) ==
    [s EXCEPT !.pc = wrapping_sub(target_address, U(4))]

jump_to_align2(s, target_address) ==
    IF usize_mod(target_address, 2) # 0 THEN panic(s)
    ELSE [s EXCEPT !.pc = wrapping_sub(target_address, U(4))]

jump_to_no_sub(s, target_address) ==
    IF usize_mod(target_address, 4) # 0 THEN panic(s)
    ELSE [s EXCEPT !.pc = target_address]

\* Variant of jump_to: the target lowered by 4 with a subtraction that stops
\* at 0 in place of wrapping.
jump_to_saturating(s, target_address) ==
    IF usize_mod(target_address, 4) # 0 THEN panic(s)
    ELSE [s EXCEPT !.pc = IF lt_u32(target_address, U(4))
                          THEN U(0) ELSE wrapping_sub(target_address, U(4))]

\* The assertion on a target and the pc override that follows it, shared by
\* the jumps and the taken branches (e.g. lines 787-791).
jump_to(s, target_address) ==
    IF usize_mod(target_address, 4) # 0 THEN panic(s)
    ELSE [s EXCEPT !.pc = wrapping_sub(target_address, U(4))]

exec_JAL(s, i) ==
    IF i.offset % 2 # 0 THEN panic(s)
    ELSE LET s1 == link(s, i.rd)
             target_address == wrapping_add_signed(s1.pc, i.offset)
         IN  jump_to(s1, target_address)

exec_JALR(s, i) ==
    LET s1 == link(s, i.rd)
        target_address == and32(wrapping_add_signed(s1.reg[i.rs1], i.offset),
                                W(65535, 65534))   \* & !1
    IN  jump_to(s1, target_address)

\* Variant of exec_BEQ: the target asserted before the registers are compared.
exec_BEQ_asserting(s, i) ==
    LET target_address == wrapping_add_signed(s.pc, i.offset)
    IN  IF usize_mod(target_address, 4) # 0 THEN panic(s)
        ELSE IF s.reg[i.rs1] = s.reg[i.rs2] THEN jump_to(s, target_address) ELSE s

exec_BEQ(s, i) ==
    LET target_address == wrapping_add_signed(s.pc, i.offset)
    IN  IF s.reg[i.rs1] = s.reg[i.rs2] THEN jump_to(s, target_address) ELSE s

exec_BNE(s, i) ==
    LET target_address == wrapping_add_signed(s.pc, i.offset)
    IN  IF s.reg[i.rs1] # s.reg[i.rs2] THEN jump_to(s, target_address) ELSE s

\* Variant of exec_BLT: `<=` in place of `<`.
exec_BLT_le(s, i) ==
    LET target_address == wrapping_add_signed(s.pc, i.offset)
    IN  IF as_i32(s.reg[i.rs1]) <= as_i32(s.reg[i.rs2])
        THEN jump_to(s, target_address) ELSE s

exec_BLT(s, i) ==
    LET target_address == wrapping_add_signed(s.pc, i.offset)
    IN  IF as_i32(s.reg[i.rs1]) < as_i32(s.reg[i.rs2])
        THEN jump_to(s, target_address) ELSE s

exec_BLTU(s, i) ==
    LET target_address == wrapping_add_signed(s.pc, i.offset)
    IN  IF lt_u32(s.reg[i.rs1], s.reg[i.rs2]) THEN jump_to(s, target_address) ELSE s

\* Variant of exec_BGE: `>` in place of `>=`.
exec_BGE_strict(s, i) ==
    LET target_address == wrapping_add_signed(s.pc, i.offset)
    IN  IF as_i32(s.reg[i.rs1]) > as_i32(s.reg[i.rs2])
        THEN jump_to(s, target_address) ELSE s

exec_BGE(s, i) ==
    LET target_address == wrapping_add_signed(s.pc, i.offset)
    IN  IF as_i32(s.reg[i.rs1]) >= as_i32(s.reg[i.rs2])
        THEN jump_to(s, target_address) ELSE s

exec_BGEU(s, i) ==
    LET target_address == wrapping_add_signed(s.pc, i.offset)
    IN  IF ~lt_u32(s.reg[i.rs1], s.reg[i.rs2]) THEN jump_to(s, target_address) ELSE s

\* Variant of exec_LW: no memory access when the destination is x0.
exec_LW_skipping_x0(s, i) ==
    LET effective_address == wrapping_add_signed(s.reg[i.rs1], i.offset)
        loaded_word == fetch_word(s.mem, effective_address)
    IN  IF i.rd = 0 THEN s
        ELSE IF loaded_word.panicked THEN panic(s)
        ELSE [s EXCEPT !.reg[i.rd] = loaded_word.value]

exec_LW(s, i) ==
    LET effective_address == wrapping_add_signed(s.reg[i.rs1], i.offset)
        loaded_word == fetch_word(s.mem, effective_address)
    IN  IF loaded_word.panicked THEN panic(s)
        ELSE IF i.rd # 0 THEN [s EXCEPT !.reg[i.rd] = loaded_word.value]
        ELSE s

exec_LH(s, i) ==
    LET effective_address == wrapping_add_signed(s.reg[i.rs1], i.offset)
        loaded_halfword == fetch_halfword(s.mem, effective_address)
    IN  IF loaded_halfword.panicked THEN panic(s)
        ELSE IF i.rd # 0
        THEN [s EXCEPT !.reg[i.rd] = as_u32(sign_extend(U(loaded_halfword.value), 16))]
        ELSE s

exec_LHU(s, i) ==
    LET effective_address == wrapping_add_signed(s.reg[i.rs1], i.offset)
        loaded_halfword == fetch_halfword(s.mem, effective_address)
    IN  IF loaded_halfword.panicked THEN panic(s)
        ELSE IF i.rd # 0 THEN [s EXCEPT !.reg[i.rd] = U(loaded_halfword.value)]
        ELSE s

\* Variant of exec_LB: the byte widened with zeros, as LBU widens it.
exec_LB_unsigned(s, i) ==
    LET effective_address == wrapping_add_signed(s.reg[i.rs1], i.offset)
        loaded_byte == index(s.mem, effective_address)
    IN  IF loaded_byte.panicked THEN panic(s)
        ELSE IF i.rd # 0 THEN [s EXCEPT !.reg[i.rd] = U(loaded_byte.value)]
        ELSE s

exec_LB(s, i) ==
    LET effective_address == wrapping_add_signed(s.reg[i.rs1], i.offset)
        loaded_byte == index(s.mem, effective_address)
    IN  IF loaded_byte.panicked THEN panic(s)
        ELSE IF i.rd # 0
        THEN [s EXCEPT !.reg[i.rd] = as_u32(sign_extend(U(loaded_byte.value), 8))]
        ELSE s

\* Variant of exec_LBU: a read that clears the byte it has read.
exec_LBU_clearing(s, i) ==
    LET effective_address == wrapping_add_signed(s.reg[i.rs1], i.offset)
        loaded_byte == index(s.mem, effective_address)
    IN  IF loaded_byte.panicked THEN panic(s)
        ELSE IF i.rd # 0
        THEN [s EXCEPT !.reg[i.rd] = U(loaded_byte.value),
                       !.mem = mem_set(s.mem, as_nat(effective_address), 0)]
        ELSE s

exec_LBU(s, i) ==
    LET effective_address == wrapping_add_signed(s.reg[i.rs1], i.offset)
        loaded_byte == index(s.mem, effective_address)
    IN  IF loaded_byte.panicked THEN panic(s)
        ELSE IF i.rd # 0 THEN [s EXCEPT !.reg[i.rd] = U(loaded_byte.value)]
        ELSE s

\* Variant of exec_SW: the address checked, the word not written.
exec_SW_dropped(s, i) ==
    LET target_address == wrapping_add_signed(s.reg[i.rs1], i.offset)
        value == s.reg[i.rs2]
        st == store_word(s.mem, target_address, value)
    IN  IF st.panicked THEN panic(s) ELSE s

exec_SW(s, i) ==
    LET target_address == wrapping_add_signed(s.reg[i.rs1], i.offset)
        value == s.reg[i.rs2]
        st == store_word(s.mem, target_address, value)
    IN  IF st.panicked THEN panic(s) ELSE [s EXCEPT !.mem = st.mem]

\* Variant of exec_SH: the address written back to rs1 after the store.
exec_SH_writeback(s, i) ==
    LET target_address == wrapping_add_signed(s.reg[i.rs1], i.offset)
        value == s.reg[i.rs2].lo
        st == store_halfword(s.mem, target_address, value)
    IN  IF st.panicked THEN panic(s)
        ELSE [s EXCEPT !.mem = st.mem, !.reg[i.rs1] = target_address]

exec_SH(s, i) ==
    LET target_address == wrapping_add_signed(s.reg[i.rs1], i.offset)
        value == s.reg[i.rs2].lo
        st == store_halfword(s.mem, target_address, value)
    IN  IF st.panicked THEN panic(s) ELSE [s EXCEPT !.mem = st.mem]

\* Variant of exec_SB: the low halfword stored where the low byte belongs.
exec_SB_halfword(s, i) ==
    LET target_address == wrapping_add_signed(s.reg[i.rs1], i.offset)
        value == s.reg[i.rs2].lo
        st == store_halfword(s.mem, target_address, value)
    IN  IF st.panicked THEN panic(s) ELSE [s EXCEPT !.mem = st.mem]

exec_SB(s, i) ==
    LET target_address == wrapping_add_signed(s.reg[i.rs1], i.offset)
        value == s.reg[i.rs2].lo % 256
        st == index_mut(s.mem, target_address, value)
    IN  IF st.panicked THEN panic(s) ELSE [s EXCEPT !.mem = st.mem]

\* The match of RISCV::execute on the parsed instruction (lines 660-920).
execute_instruction(s, i) ==
        CASE i.op = "panic" -> panic(s)
          [] i.op = "ADDI"  -> exec_ADDI(s, i)
          [] i.op = "SLTI"  -> exec_SLTI(s, i)
          [] i.op = "STLIU" -> exec_STLIU(s, i)
          [] i.op = "ANDI"  -> exec_ANDI(s, i)
          [] i.op = "ORI"   -> exec_ORI(s, i)
          [] i.op = "XORI"  -> exec_XORI(s, i)
          [] i.op = "SLLI"  -> exec_SLLI(s, i)
          [] i.op = "SRLI"  -> exec_SRLI(s, i)
          [] i.op = "SRAI"  -> exec_SRAI(s, i)
          [] i.op = "LUI"   -> exec_LUI(s, i)
          [] i.op = "AUIPC" -> exec_AUIPC(s, i)
          [] i.op = "ADD"   -> exec_ADD(s, i)
          [] i.op = "SUB"   -> exec_SUB(s, i)
          [] i.op = "SLT"   -> exec_SLT(s, i)
          [] i.op = "SLTU"  -> exec_SLTU(s, i)
          [] i.op = "AND"   -> exec_AND(s, i)
          [] i.op = "OR"    -> exec_OR(s, i)
          [] i.op = "XOR"   -> exec_XOR(s, i)
          [] i.op = "SLL"   -> exec_SLL(s, i)
          [] i.op = "SRL"   -> exec_SRL(s, i)
          [] i.op = "SRA"   -> exec_SRA(s, i)
          [] i.op = "JAL"   -> exec_JAL(s, i)
          [] i.op = "JALR"  -> exec_JALR(s, i)
          [] i.op = "BEQ"   -> exec_BEQ(s, i)
          [] i.op = "BNE"   -> exec_BNE(s, i)
          [] i.op = "BLT"   -> exec_BLT(s, i)
          [] i.op = "BLTU"  -> exec_BLTU(s, i)
          [] i.op = "BGE"   -> exec_BGE(s, i)
          [] i.op = "BGEU"  -> exec_BGEU(s, i)
          [] i.op = "LW"    -> exec_LW(s, i)
          [] i.op = "LH"    -> exec_LH(s, i)
          [] i.op = "LHU"   -> exec_LHU(s, i)
          [] i.op = "LB"    -> exec_LB(s, i)
          [] i.op = "LBU"   -> exec_LBU(s, i)
          [] i.op = "SW"    -> exec_SW(s, i)
          [] i.op = "SH"    -> exec_SH(s, i)
          [] i.op = "SB"    -> exec_SB(s, i)

\* RISCV::execute: decode self.current_instruction, then the arm of its mnemonic.
execute(s) == execute_instruction(s, decode(s.current_instruction))

\* f(s), unless s has panicked: the call after a call that may panic.
then_increment_pc(s) == IF s.panicked THEN s ELSE increment_pc(s)
then_execute(s) == IF s.panicked THEN s ELSE then_increment_pc(execute(s))

\* RISCV::clock_cycle: fetch, execute, increment; a panic ends the step there.
clock_cycle(s) == then_execute(fetch_instruction(s))

(***************************************************************************)
(* Programs.  Instruction words are assembled from their fields, the way   *)
(* asm_itype! of utils.rs does for the I format; the other formats place   *)
(* the fields where get_encoding reads them.  Immediates are given as      *)
(* integers and cut to their width.                                        *)
(***************************************************************************)

enc_I(imm, rs1, funct3, rd, opcode) ==
    or32(shl32(U(imm % 4096), 20), or32(shl32(U(rs1), 15),
         or32(shl32(U(funct3), 12), or32(shl32(U(rd), 7), U(opcode)))))

enc_R(funct7, rs2, rs1, funct3, rd, opcode) ==
    or32(shl32(U(funct7), 25), or32(shl32(U(rs2), 20), or32(shl32(U(rs1), 15),
         or32(shl32(U(funct3), 12), or32(shl32(U(rd), 7), U(opcode))))))

enc_S(imm, rs2, rs1, funct3, opcode) ==
    LET v == imm % 4096
    IN  or32(shl32(U(v \div 32), 25), or32(shl32(U(rs2), 20), or32(shl32(U(rs1), 15),
             or32(shl32(U(funct3), 12), or32(shl32(U(v % 32), 7), U(opcode))))))

enc_B(imm, rs2, rs1, funct3, opcode) ==
    LET v == imm % 8192
    IN  or32(shl32(U(v \div 4096), 31), or32(shl32(U((v \div 32) % 64), 25),
             or32(shl32(U(rs2), 20), or32(shl32(U(rs1), 15), or32(shl32(U(funct3), 12),
             or32(shl32(U((v \div 2) % 16), 8), or32(shl32(U((v \div 2048) % 2), 7),
                  U(opcode))))))))

enc_U(imm20, rd, opcode) ==
    or32(shl32(U(imm20), 12), or32(shl32(U(rd), 7), U(opcode)))

enc_J(imm, rd, opcode) ==
    LET v == imm % 2097152
    IN  or32(shl32(U(v \div 1048576), 31), or32(shl32(U((v \div 2) % 1024), 21),
             or32(shl32(U((v \div 2048) % 2), 20), or32(shl32(U((v \div 4096) % 256), 12),
             or32(shl32(U(rd), 7), U(opcode))))))

\* The first word of a program sets x1 (ADDI x1,x0,imm or LUI x1,imm20): to
\* 0, 1, 3, 12, 0xFFFF_FFFF, 0x8000_0000 and MEM_SIZE.
SetupX1 ==
    { enc_I(v, 0, ADDI_FUNCT3, 1, 19) : v \in {0, 1, 3, 12, -1} }
    \cup { enc_U(v, 1, 55) : v \in {524288, 4096} }

\* The second word sets x2: to 1, 35, 0xFFFF_F8A5 and 0x1234_5000.
SetupX2 ==
    { enc_I(v, 0, ADDI_FUNCT3, 2, 19) : v \in {1, 35, -1883} }
    \cup { enc_U(74565, 2, 55) }

\* The third word is the instruction under test, on rs1 = x1 and rs2 = x2.
OpImmWords ==
    { enc_I(imm, 1, f3, 3, 19) : imm \in {5, -1},
        f3 \in {ADDI_FUNCT3, SLTI_FUNCT3, SLTIU_FUNCT3, ANDI_FUNCT3, ORI_FUNCT3, XORI_FUNCT3} }
    \cup { enc_I(-2048, 1, ADDI_FUNCT3, 0, 19), enc_I(7, 1, ADDI_FUNCT3, 1, 19),
           enc_I(-2048, 0, ADDI_FUNCT3, 3, 19) }

\* Shift immediates: the top seven bits (hi7) over the shift amount.
ShiftWords ==
    { enc_I(hi7 * 32 + shamt, 1, f3, 3, 19) : shamt \in {1, 31},
        hi7 \in {0, 32, 1}, f3 \in {SLLI_FUNCT3, SRLI_FUNCT3} }

UpperWords ==
    { enc_U(1048575, 3, 55), enc_U(1, 0, 55), enc_U(1048575, 3, 23), enc_U(1, 3, 23),
      enc_U(1, 0, 23), enc_U(1, 1, 55), enc_U(0, 2, 55), enc_U(74565, 1, 23) }

OpRRWords ==
    { enc_R(f7, 2, 1, f3, 3, 51) : f7 \in {0}, f3 \in 0 .. 7 }
    \cup { enc_R(32, 2, 1, f3, 3, 51) : f3 \in {0, 5, 1} }
    \cup { enc_R(0, 2, 1, 0, 0, 51), enc_R(0, 1, 1, 0, 1, 51), enc_R(1, 2, 1, 0, 3, 51) }

JalWords ==
    { enc_J(off, 3, 111) : off \in {8, -8, 2, -12, 6} }
    \cup { enc_J(off, 0, 111) : off \in {8, 2} }

JalrWords ==
    { enc_I(off, 1, JALR_FUNCT3, 3, 103) : off \in {0, 1, 5, -4} }
    \cup { enc_I(off, 1, JALR_FUNCT3, 1, 103) : off \in {0, 4, 6} }
    \cup { enc_I(0, 1, JALR_FUNCT3, 0, 103), enc_I(0, 1, 1, 3, 103) }

BranchWords ==
    { enc_B(off, 2, 1, f3, 99) : off \in {8, 2}, f3 \in 0 .. 7 }
    \cup { enc_B(-8, 2, 1, BEQ_FUNCT3, 99), enc_B(-8, 0, 0, BEQ_FUNCT3, 99),
           enc_B(-12, 2, 1, BNE_FUNCT3, 99) }

LoadWords ==
    { enc_I(off, 1, f3, 3, 3) : off \in {0, 1, 2, -4, -2, -1}, f3 \in 0 .. 5 }
    \cup { enc_I(off, 1, f3, 0, 3) :
             off \in {0, 1, 2},
             f3 \in {LW_FUNCT3, LH_FUNCT3, LHU_FUNCT3, LB_FUNCT3, LBU_FUNCT3} }
    \cup { enc_I(0, 1, LW_FUNCT3, 1, 3), enc_I(0, 1, 6, 3, 3), enc_I(0, 1, 7, 3, 3) }

StoreWords ==
    { enc_S(off, 2, 1, f3, 35) : off \in {0, 1, 2, -4, -2, -1}, f3 \in 0 .. 3 }

\* Every value of the low seven bits over fields of zero (FENCE, ECALL and
\* the never-written word 0 among them), and all ones.
OtherWords == { U(v) : v \in 0 .. 127 } \cup { W(65535, 65535) }

\* FENCE and SYSTEM words with bits set above the opcode: FENCE iorw,iorw,
\* FENCE.I, EBREAK, CSRRW x3,mstatus,x1, and every funct3 with the other
\* fields all zeros or all ones.
FenceSystemWords ==
    { W(4080, 15), W(0, 4111), W(16, 115), W(12288, 37363) }
    \cup { enc_I(imm, r, f3, r, op) :
             imm \in {0, -1}, r \in {0, 31}, f3 \in 0 .. 7, op \in {15, 115} }

TestWords ==
    OpImmWords \cup ShiftWords \cup UpperWords \cup OpRRWords \cup JalWords
    \cup JalrWords \cup BranchWords \cup LoadWords \cup StoreWords \cup OtherWords
    \cup FenceSystemWords

\* A store of x2 at offset off from x1, then a load into x3 from the same
\* place: SW/LW, SH/LHU, SH/LH, SB/LBU and SB/LB (rv32i.rs,
\* load_and_store_interaction).  With x1 = 12 and offset 0 the SW writes the
\* word the pc reaches next.
StoreLoadPairs ==
    { << enc_S(off, 2, 1, p[1], 35), enc_I(off, 1, p[2], 3, 3) >> :
        off \in {0, 4, -4},
        p \in { << SW_FUNCT3, LW_FUNCT3 >>, << SH_FUNCT3, LHU_FUNCT3 >>,
                << SH_FUNCT3, LH_FUNCT3 >>, << SB_FUNCT3, LBU_FUNCT3 >>,
                << SB_FUNCT3, LB_FUNCT3 >> } }

\* ADDI x10,x0,5; ADDI x11,x0,7; ADD x12,x10,x11; SW x12,0(x0)
StoreSumProgram ==
    << enc_I(5, 0, ADDI_FUNCT3, 10, 19), enc_I(7, 0, ADDI_FUNCT3, 11, 19),
       enc_R(ADD_FUNCT7, 11, 10, ADD_FUNCT3, 12, 51), enc_S(0, 12, 0, SW_FUNCT3, 35) >>

\* rv32i.rs, branch_and_loop_program: ADDI x1,x0,0; ADDI x2,x0,1; ADDI x3,x0,6;
\* ADD x1,x1,x2; ADDI x2,x2,1; BLT x2,x3,-8
LoopProgram ==
    << enc_I(0, 0, ADDI_FUNCT3, 1, 19), enc_I(1, 0, ADDI_FUNCT3, 2, 19),
       enc_I(6, 0, ADDI_FUNCT3, 3, 19), enc_R(ADD_FUNCT7, 2, 1, ADD_FUNCT3, 1, 51),
       enc_I(1, 2, ADDI_FUNCT3, 2, 19), enc_B(-8, 3, 2, BLT_FUNCT3, 99) >>

\* jal_jalr.rs, jal_and_jalr_combined_with_regular_instructions: ADDI x10,x0,5;
\* ADDI x11,x0,3; JAL x1,+8; ADDI x0,x0,0; ADD x10,x10,x11; JALR x0,0(x1)
CallReturnProgram ==
    << enc_I(5, 0, ADDI_FUNCT3, 10, 19), enc_I(3, 0, ADDI_FUNCT3, 11, 19),
       enc_J(8, 1, 111), enc_I(0, 0, ADDI_FUNCT3, 0, 19),
       enc_R(ADD_FUNCT7, 11, 10, ADD_FUNCT3, 10, 51), enc_I(0, 1, JALR_FUNCT3, 0, 103) >>

\* JAL x0,+16; ADDI x0,x0,0; ADDI x0,x0,0: the first word jumps past the last.
JumpOutProgram ==
    << enc_J(16, 0, 111), enc_I(0, 0, ADDI_FUNCT3, 0, 19), enc_I(0, 0, ADDI_FUNCT3, 0, 19) >>

Programs ==
    { << a, b, t >> : a \in SetupX1, b \in SetupX2, t \in TestWords }
    \cup { << a, b, p[1], p[2] >> : a \in SetupX1, b \in SetupX2, p \in StoreLoadPairs }
    \cup { StoreSumProgram, LoopProgram, CallReturnProgram, JumpOutProgram }

\* main.rs lines 8-17: store_word(4 * i, instructions[i]) for i = 0 .. len - 1,
\* here over the first n words (load_program(mem, p, Len(p)) is the whole loop).
RECURSIVE load_program(_, _, _)
load_program(mem, instructions, n) ==
    IF n = 0 THEN mem
    ELSE store_word(load_program(mem, instructions, n - 1),
                    U(4 * (n - 1)), instructions[n]).mem

(***************************************************************************)
(* The state machine: a hart stepping on a memory that holds a program.    *)
(***************************************************************************)

VARIABLES reg, pc, current_instruction, mem, panicked, prev, steps, call, instructions

vars == << reg, pc, current_instruction, mem, panicked, prev, steps, call, instructions >>

\* The most clock cycles a run takes.
MaxSteps == 20

\* The hart and its memory as one value.
State ==
    [reg |-> reg, pc |-> pc, current_instruction |-> current_instruction,
     mem |-> mem, panicked |-> panicked]

\* No call of the Memory interface from outside the hart yet.
NoCall == [name |-> "none", addr |-> U(0), value |-> U(0)]

\* RISCV::reset() and Memory::new(), then the program loaded as main does.
\* prev is the hart and memory before the last clock cycle, steps their number.
Init ==
    \E p \in Programs :
        /\ reg = RISCV_reset(Memory_new).reg
        /\ pc = RISCV_reset(Memory_new).pc
        /\ current_instruction = RISCV_reset(Memory_new).current_instruction
        /\ mem = load_program(Memory_new, p, Len(p))
        /\ panicked = FALSE
        /\ prev = RISCV_reset(load_program(Memory_new, p, Len(p)))
        /\ steps = 0
        /\ call = NoCall
        /\ instructions = p

\* Variant of ClockCycle: a caller that catches the panic, skips the word that
\* faulted and goes on stepping.
ClockCycle_resumed ==
    /\ steps < MaxSteps
    /\ \E s \in { IF panicked
                  THEN clock_cycle(increment_pc([State EXCEPT !.panicked = FALSE]))
                  ELSE clock_cycle(State) } :
        /\ reg' = s.reg
        /\ pc' = s.pc
        /\ current_instruction' = s.current_instruction
        /\ mem' = s.mem
        /\ panicked' = s.panicked
    /\ prev' = State
    /\ steps' = steps + 1
    /\ UNCHANGED << call, instructions >>

\* One call of clock_cycle; after a panic there is no next call.
ClockCycle ==
    /\ ~panicked
    /\ steps < MaxSteps
    /\ \E s \in { clock_cycle(State) } :
        /\ reg' = s.reg
        /\ pc' = s.pc
        /\ current_instruction' = s.current_instruction
        /\ mem' = s.mem
        /\ panicked' = s.panicked
    /\ prev' = State
    /\ steps' = steps + 1
    /\ UNCHANGED << call, instructions >>

Next == ClockCycle

Spec == Init /\ [][Next]_vars

\* Variant of MainClockCycle: `<=` in the condition of the loop.
MainClockCycle_inclusive ==
    /\ ~panicked
    /\ steps <= Len(instructions)
    /\ \E s \in { clock_cycle(State) } :
        /\ reg' = s.reg
        /\ pc' = s.pc
        /\ current_instruction' = s.current_instruction
        /\ mem' = s.mem
        /\ panicked' = s.panicked
    /\ prev' = State
    /\ steps' = steps + 1
    /\ UNCHANGED << call, instructions >>

\* One turn of the clock loop of main: `while i < instructions.len()` with
\* steps as i; a panic ends the process.
MainClockCycle ==
    /\ ~panicked
    /\ steps < Len(instructions)
    /\ \E s \in { clock_cycle(State) } :
        /\ reg' = s.reg
        /\ pc' = s.pc
        /\ current_instruction' = s.current_instruction
        /\ mem' = s.mem
        /\ panicked' = s.panicked
    /\ prev' = State
    /\ steps' = steps + 1
    /\ UNCHANGED << call, instructions >>

NextMain == MainClockCycle

\* The loop counter of main across one turn: `i < instructions.len()` and
\* `i += 1`.  Every MainClockCycle step is one.
MainTick ==
    /\ ~panicked
    /\ steps < Len(instructions)
    /\ steps' = steps + 1

\* main as it runs: the loop is sequential code, so a turn that can be made
\* is made.
SpecMain == Init /\ [][NextMain]_vars /\ WF_steps(MainTick)

(***************************************************************************)
(* The public methods of the hart called one at a time, as the tests do:   *)
(* fetch_instruction, execute and increment_pc each on its own, and        *)
(* clock_cycle, on a hart made by RISCV::reset() or RISCV::new_().  call   *)
(* is the last call made (addr the pc it found, value the word that        *)
(* fetch_instruction returned), prev the hart and memory before it, steps  *)
(* the number of calls.                                                    *)
(***************************************************************************)

\* The most calls a test makes on its hart.
MaxHartCalls == 4

\* One instruction stored for the hart, or one of the longer programs.
HartPrograms ==
    { << t >> : t \in TestWords }
    \cup { StoreSumProgram, LoopProgram, CallReturnProgram, JumpOutProgram }

\* RISCV::reset() or RISCV::new_(), and Memory::new() with the program
\* stored from address 0 and its first word stored at the pc of the hart
\* (store_word, as the tests do before the first call).
InitHart ==
    \E p \in HartPrograms :
        \E h \in { RISCV_reset(Memory_new), RISCV_new_(Memory_new) } :
            \E m \in { store_word(load_program(Memory_new, p, Len(p)), h.pc, p[1]).mem } :
                /\ reg = h.reg
                /\ pc = h.pc
                /\ current_instruction = h.current_instruction
                /\ mem = m
                /\ panicked = FALSE
                /\ prev = [h EXCEPT !.mem = m]
                /\ steps = 0
                /\ call = NoCall
                /\ instructions = p

\* cpu.fetch_instruction(&mem) on its own: the word at pc becomes
\* current_instruction and is returned; the pc and the registers stay.
CallFetchInstruction ==
    /\ ~panicked
    /\ steps < MaxHartCalls
    /\ \E s \in { fetch_instruction(State) } :
        /\ reg' = s.reg
        /\ pc' = s.pc
        /\ current_instruction' = s.current_instruction
        /\ mem' = s.mem
        /\ panicked' = s.panicked
        /\ call' = [name |-> "fetch_instruction", addr |-> pc,
                    value |-> s.current_instruction]
    /\ prev' = State
    /\ steps' = steps + 1
    /\ UNCHANGED instructions

\* cpu.execute(&mut mem) on its own: current_instruction is decoded and
\* carried out as it stands, with no fetch before and no increment after.
CallExecute ==
    /\ ~panicked
    /\ steps < MaxHartCalls
    /\ \E s \in { execute(State) } :
        /\ reg' = s.reg
        /\ pc' = s.pc
        /\ current_instruction' = s.current_instruction
        /\ mem' = s.mem
        /\ panicked' = s.panicked
    /\ call' = [name |-> "execute", addr |-> pc, value |-> current_instruction]
    /\ prev' = State
    /\ steps' = steps + 1
    /\ UNCHANGED instructions

\* cpu.increment_pc() on its own
CallIncrementPc ==
    /\ ~panicked
    /\ steps < MaxHartCalls
    /\ \E s \in { increment_pc(State) } :
        /\ reg' = s.reg
        /\ pc' = s.pc
        /\ current_instruction' = s.current_instruction
        /\ mem' = s.mem
        /\ panicked' = s.panicked
    /\ call' = [name |-> "increment_pc", addr |-> pc, value |-> current_instruction]
    /\ prev' = State
    /\ steps' = steps + 1
    /\ UNCHANGED instructions

\* cpu.clock_cycle(&mut mem) among the other calls
CallClockCycle ==
    /\ ~panicked
    /\ steps < MaxHartCalls
    /\ \E s \in { clock_cycle(State) } :
        /\ reg' = s.reg
        /\ pc' = s.pc
        /\ current_instruction' = s.current_instruction
        /\ mem' = s.mem
        /\ panicked' = s.panicked
    /\ call' = [name |-> "clock_cycle", addr |-> pc, value |-> current_instruction]
    /\ prev' = State
    /\ steps' = steps + 1
    /\ UNCHANGED instructions

NextHart == CallFetchInstruction \/ CallExecute \/ CallIncrementPc \/ CallClockCycle

SpecHart == InitHart /\ [][NextHart]_vars

(***************************************************************************)
(* The Memory interface on its own: a harness that calls store_word,       *)
(* store_halfword and the byte write on a fresh Memory, as the tests and   *)
(* main's loader do.  call is the last call made, prev.mem the memory      *)
(* before it.                                                              *)
(***************************************************************************)

\* The most calls a run makes.
MaxCalls == 2

\* Addresses: the first words, the last bytes of the memory, the first byte
\* past it, and the last word of the 32-bit space.
MemAddrs ==
    { U(a) : a \in {0, 1, 2, 4, MEM_SIZE - 4, MEM_SIZE - 2, MEM_SIZE - 1, MEM_SIZE} }
    \cup { W(65535, 65532) }

MemWords == { W(4660, 22136), W(32768, 65281), U(0) }

MemHalfwords == { 43981, 0 }

MemBytes == { 239, 0 }

InitMem ==
    /\ reg = RISCV_reset(Memory_new).reg
    /\ pc = RISCV_reset(Memory_new).pc
    /\ current_instruction = RISCV_reset(Memory_new).current_instruction
    /\ mem = Memory_new
    /\ panicked = FALSE
    /\ prev = RISCV_reset(Memory_new)
    /\ steps = 0
    /\ call = NoCall
    /\ instructions = << >>

\* What every call leaves alone, and the record of the call.
Called(name, addr, value) ==
    /\ call' = [name |-> name, addr |-> addr, value |-> value]
    /\ prev' = State
    /\ steps' = steps + 1
    /\ UNCHANGED << reg, pc, current_instruction, instructions >>

\* mem.store_word(addr, value)
CallStoreWord ==
    /\ ~panicked
    /\ steps < MaxCalls
    /\ \E addr \in MemAddrs, value \in MemWords :
        /\ \E st \in { store_word(mem, addr, value) } :
            mem' = st.mem /\ panicked' = st.panicked
        /\ Called("store_word", addr, value)

\* mem.store_halfword(addr, value)
CallStoreHalfword ==
    /\ ~panicked
    /\ steps < MaxCalls
    /\ \E addr \in MemAddrs, value \in MemHalfwords :
        /\ \E st \in { store_halfword(mem, addr, value) } :
            mem' = st.mem /\ panicked' = st.panicked
        /\ Called("store_halfword", addr, value)

\* mem[addr] = value
CallStoreByte ==
    /\ ~panicked
    /\ steps < MaxCalls
    /\ \E addr \in MemAddrs, value \in MemBytes :
        /\ \E st \in { index_mut(mem, addr, value) } :
            mem' = st.mem /\ panicked' = st.panicked
        /\ Called("index_mut", addr, value)

NextMem == CallStoreWord \/ CallStoreHalfword \/ CallStoreByte

SpecMem == InitMem /\ [][NextMem]_vars

(***************************************************************************)
(* The free functions on their own: a harness that makes one call of       *)
(* OPCODE::from_value, OPCODE::get_opcode, the decoder or sign_extend_u32, *)
(* as the unit tests do.  call.addr is the argument, call.value the        *)
(* result; a decoder that panics leaves panicked set.                      *)
(***************************************************************************)

\* Arguments of from_value: every value of eight bits.
OpcodeValues == 0 .. 255

\* Arguments of get_opcode: every value of the low seven bits under three
\* settings of bits 7-15 and two of bits 16-31.
GetOpcodeWords ==
    { W(h, v + 128 * k) : h \in {0, 65535}, v \in 0 .. 127, k \in {0, 1, 511} }

\* Words of the opcodes that carry an immediate, with the immediate fields at
\* their extremes: bits 31-16 all zeros, all ones, the sign bit alone, all
\* but the sign bit, and shift amount 31 under funct7 0 and 32; bits 15-7
\* with every funct3 and the bits around it zeros or ones.
ImmediateWords ==
    { W(h, opc + 128 * (rd + 32 * f3 + 256 * b)) :
        h \in {0, 1, 496, 16880, 32767, 32768, 65534, 65535},
        rd \in {0, 1, 30, 31}, f3 \in 0 .. 7, b \in {0, 1},
        opc \in {19, 3, 103, 35, 99, 111, 55, 23} }

\* Arguments of the decoder: every funct7 and funct3 under OPRR and OPIMM,
\* every funct3 under three funct7 for the other opcodes and for two values
\* that are no opcode; rs2 = 2, rs1 = 1, rd = 3.
DecodeWords ==
    { enc_R(f7, 2, 1, f3, 3, opc) : f7 \in 0 .. 127, f3 \in 0 .. 7, opc \in {51, 19} }
    \cup { enc_R(f7, 2, 1, f3, 3, opc) : f7 \in {0, 32, 127}, f3 \in 0 .. 7,
             opc \in {3, 15, 23, 35, 55, 99, 103, 111, 115, 0, 127} }
    \cup ImmediateWords

\* Arguments of sign_extend_u32: every value of 5, 8, 12 and 13 bits; for 16,
\* 20, 21 and 32 bits the values around 0, around the sign bit and at the top;
\* and the widths 0, 33 and 40 (tests/basics.rs sign_extend_more_than_32_bits
\* passes value 0 with 40 bits).
SignExtendArgs ==
    { [value |-> U(v), bits |-> n] : v \in 0 .. 31, n \in {5} }
    \cup { [value |-> U(v), bits |-> n] : v \in 0 .. 255, n \in {8} }
    \cup { [value |-> U(v), bits |-> n] : v \in 0 .. 4095, n \in {12} }
    \cup { [value |-> U(v), bits |-> n] : v \in 0 .. 8191, n \in {13} }
    \cup { [value |-> U(v), bits |-> 16] :
             v \in {0, 1, 32767, 32768, 32769, 43981, 65534, 65535} }
    \cup { [value |-> U(v), bits |-> 20] :
             v \in {0, 1, 524287, 524288, 524289, 703710, 1048574, 1048575} }
    \cup { [value |-> U(v), bits |-> 21] :
             v \in {0, 1, 1048575, 1048576, 1048577, 1398101, 2097150, 2097151} }
    \cup { [value |-> W(h, l), bits |-> 32] :
             h \in {0, 32767, 32768, 65535}, l \in {0, 1, 65535} }
    \cup { [value |-> v, bits |-> n] :
             v \in {U(0), U(5), W(65535, 65535)}, n \in {0, 33, 40} }

\* OPCODE::from_value(value)
CallFromValue ==
    /\ ~panicked
    /\ call.name = NoCall.name
    /\ \E value \in OpcodeValues :
        Called("from_value", value, OPCODE_from_value(value))
    /\ UNCHANGED << mem, panicked >>

\* OPCODE::get_opcode(instruction)
CallGetOpcode ==
    /\ ~panicked
    /\ call.name = NoCall.name
    /\ \E instruction \in GetOpcodeWords :
        Called("get_opcode", instruction, get_opcode(instruction))
    /\ UNCHANGED << mem, panicked >>

\* Instruction::parse_instruction(EncodingVariant::get_encoding(instruction))
CallDecode ==
    /\ ~panicked
    /\ call.name = NoCall.name
    /\ \E instruction \in DecodeWords :
        \E i \in { decode(instruction) } :
            /\ Called("decode", instruction, i)
            /\ panicked' = (i.op = "panic")
    /\ UNCHANGED mem

\* sign_extend_u32(value, bits)
CallSignExtend ==
    /\ ~panicked
    /\ call.name = NoCall.name
    /\ \E a \in SignExtendArgs :
        \E o \in sign_extend_u32(a.value, a.bits) :
            /\ Called("sign_extend_u32", a, o.value)
            /\ panicked' = o.panicked
    /\ UNCHANGED mem

NextFn == CallFromValue \/ CallGetOpcode \/ CallDecode \/ CallSignExtend

SpecFn == InitMem /\ [][NextFn]_vars

(***************************************************************************)
(* The vocabulary of the properties.                                       *)
(***************************************************************************)

\* A clock cycle has been made, and the last one ran to its end.
Stepped == steps > 0
Completed == steps > 0 /\ ~panicked

\* The last clock cycle got its word from memory, and the instruction in it.
Fetched == steps > 0 /\ fetch_word_ok(prev.pc)
LastWord == fetch_word(prev.mem, prev.pc).value
LastInstr == decode(LastWord)

JumpOps == { "JAL", "JALR" }
BranchOps == { "BEQ", "BNE", "BLT", "BGE", "BLTU", "BGEU" }
LoadOps == { "LW", "LH", "LHU", "LB", "LBU" }
StoreOps == { "SW", "SH", "SB" }
RdOps ==
    { "ADDI", "SLTI", "STLIU", "ANDI", "ORI", "XORI", "SLLI", "SRLI", "SRAI", "LUI",
      "AUIPC", "ADD", "SUB", "SLT", "SLTU", "AND", "OR", "XOR", "SLL", "SRL", "SRA" }
    \cup JumpOps \cup LoadOps

\* The condition of branch i holds in s.
BranchHolds(s, i) ==
    \/ i.op = "BEQ" /\ s.reg[i.rs1] = s.reg[i.rs2]
    \/ i.op = "BNE" /\ s.reg[i.rs1] # s.reg[i.rs2]
    \/ i.op = "BLT" /\ as_i32(s.reg[i.rs1]) < as_i32(s.reg[i.rs2])
    \/ i.op = "BGE" /\ as_i32(s.reg[i.rs1]) >= as_i32(s.reg[i.rs2])
    \/ i.op = "BLTU" /\ lt_u32(s.reg[i.rs1], s.reg[i.rs2])
    \/ i.op = "BGEU" /\ ~lt_u32(s.reg[i.rs1], s.reg[i.rs2])

\* i transfers control from s: a jump, or a branch whose condition holds.
Transfers(s, i) == i.op \in JumpOps \/ BranchHolds(s, i)

\* v with bit 0 cleared.
ClearBit0(v) == [hi |-> v.hi, lo |-> v.lo - (v.lo % 2)]

\* The target JALR i has by its definition: from reg[rs1] as s holds it.
JalrTarget(s, i) == ClearBit0(wrapping_add_signed(s.reg[i.rs1], i.offset))

\* The target the step computes for a transfer i from s.  JALR reads reg[rs1]
\* when the link has been written: with rd = rs1 # 0 it reads pc + 4.
ComputedTarget(s, i) ==
    IF i.op = "JALR"
    THEN IF i.rd = i.rs1 /\ i.rd # 0
         THEN ClearBit0(wrapping_add_signed(wrapping_add(s.pc, U(4)), i.offset))
         ELSE JalrTarget(s, i)
    ELSE wrapping_add_signed(s.pc, i.offset)

\* The address a load or store i computes from s.
EffectiveAddress(s, i) == wrapping_add_signed(s.reg[i.rs1], i.offset)

(***************************************************************************)
(* The properties, by claim.                                               *)
(***************************************************************************)

\* C1: from reset, with any program in memory, register 0 holds 0 in every
\* state: no instruction with rd = 0 writes it.
C1_RegisterZero == reg[0] = U(0)

\* C1 happens: a step has completed an instruction that writes rd, with rd = 0.
C1_Witness ==
    /\ Completed
    /\ LastInstr.op \in RdOps
    /\ LastInstr.rd = 0
    /\ LastInstr.op = "ADDI" /\ LastInstr.imm # 0

\* C2: a completed step whose instruction is no jump and no branch whose
\* condition holds leaves pc at (pc before + 4) mod 2^32.
C2_PcPlus4 ==
    (Completed /\ ~Transfers(prev, LastInstr)) => pc = wrapping_add(prev.pc, U(4))

\* C2 happens: a BEQ whose condition fails has completed, away from address 0.
C2_Witness ==
    /\ Completed
    /\ LastInstr.op = "BEQ"
    /\ ~BranchHolds(prev, LastInstr)
    /\ prev.pc # U(0)

\* C3: after a completed step that executes JAL, JALR or a branch whose
\* condition holds, pc is a multiple of 4.
C3_TransferAligned ==
    (Completed /\ Transfers(prev, LastInstr)) => pc.lo % 4 = 0

\* C3 happens: a JALR has completed whose sum reg[rs1] + offset was odd.
C3_Witness ==
    /\ Completed
    /\ LastInstr.op = "JALR"
    /\ wrapping_add_signed(prev.reg[LastInstr.rs1], LastInstr.offset).lo % 2 = 1

\* C4: a step that executes JAL, JALR or a branch whose condition holds, and
\* computes a target that is no multiple of 4, panics, and pc keeps the value
\* it had before the step.
C4_MisalignedTargetFaults ==
    ( /\ Fetched
      /\ LastInstr.op # "panic"
      /\ Transfers(prev, LastInstr)
      /\ ComputedTarget(prev, LastInstr).lo % 4 # 0 )
    => (panicked /\ pc = prev.pc)

\* C4 happens: a BEQ whose condition holds and whose target is pc + 2 has
\* panicked.
C4_Witness ==
    /\ Fetched
    /\ panicked
    /\ LastInstr.op = "BEQ"
    /\ BranchHolds(prev, LastInstr)
    /\ LastInstr.offset = 2

\* C5 as claimed: every JALR step, rd = rs1 included, jumps to (reg[rs1] before
\* the step + offset) with bit 0 cleared; when that is a multiple of 4 the step
\* ends with pc there and, if rd # 0, reg[rd] = pc before + 4.
C5_JalrTargetFromOldRs1 ==
    (Fetched /\ LastInstr.op = "JALR" /\ JalrTarget(prev, LastInstr).lo % 4 = 0)
    => /\ ~panicked
       /\ pc = JalrTarget(prev, LastInstr)
       /\ LastInstr.rd # 0 => reg[LastInstr.rd] = wrapping_add(prev.pc, U(4))

\* C6: a JAL step at pc P whose target T = (P + offset) mod 2^32 is a multiple
\* of 4 completes with pc = T; with rd # 0 register rd becomes P + 4 and no
\* other register changes, with rd = 0 no register changes.
C6_JalTargetAndLink ==
    ( /\ Fetched
      /\ LastInstr.op = "JAL"
      /\ wrapping_add_signed(prev.pc, LastInstr.offset).lo % 4 = 0 )
    => /\ ~panicked
       /\ pc = wrapping_add_signed(prev.pc, LastInstr.offset)
       /\ reg = IF LastInstr.rd # 0
                THEN [prev.reg EXCEPT ![LastInstr.rd] = wrapping_add(prev.pc, U(4))]
                ELSE prev.reg

\* C6 happens: a JAL with rd # 0 has completed, backwards to address 0.
C6_Witness ==
    /\ Completed
    /\ LastInstr.op = "JAL"
    /\ LastInstr.rd # 0
    /\ LastInstr.offset < 0
    /\ pc = U(0)

\* An OPIMM word with funct3 001 and top seven bits other than 0000000, or
\* with funct3 101 and top seven bits other than 0000000 and 0100000.
InvalidShiftWord(w) ==
    /\ w.lo % 128 = 19
    /\ \/ (w.lo \div 4096) % 8 = 1 /\ w.hi \div 512 # 0
       \/ (w.lo \div 4096) % 8 = 5 /\ w.hi \div 512 \notin {0, 32}

\* C7 as claimed: a step on a shift-immediate word with invalid top seven bits
\* panics in the decoder; the word is never executed as a shift.
C7_InvalidShiftFaults ==
    (Fetched /\ InvalidShiftWord(LastWord)) => panicked

\* C8: after store_word(A, V) at an in-bounds multiple of 4, fetch_word(A) is
\* V; after store_halfword(A, V) at an in-bounds even A, fetch_halfword(A) is
\* V; after a byte write at an in-bounds A, the byte read at A is V.
C8_StoreFetchRoundTrip ==
    /\ ( /\ call.name = "store_word"
         /\ call.addr.lo % 4 = 0
         /\ usize_le(call.addr, MEM_SIZE - 4) )
       => /\ ~panicked
          /\ fetch_word(mem, call.addr) = [panicked |-> FALSE, value |-> call.value]
    /\ ( /\ call.name = "store_halfword"
         /\ call.addr.lo % 2 = 0
         /\ usize_le(call.addr, MEM_SIZE - 2) )
       => /\ ~panicked
          /\ fetch_halfword(mem, call.addr) = [panicked |-> FALSE, value |-> call.value]
    /\ (call.name = "index_mut" /\ usize_le(call.addr, MEM_SIZE - 1))
       => /\ ~panicked
          /\ index(mem, call.addr) = [panicked |-> FALSE, value |-> call.value]

\* C8 happens: a word other than 0 has been stored over a memory that held
\* something already.
C8_Witness ==
    /\ call.name = "store_word"
    /\ ~panicked
    /\ call.value # U(0)
    /\ prev.mem # Memory_new

\* C9: after store_word(A, V) the byte at A + i is bits 8i+7 .. 8i of V,
\* fetch_halfword(A) is the low half of V and fetch_halfword(A + 2) the high.
C9_LittleEndian ==
    (call.name = "store_word" /\ ~panicked)
    => /\ index(mem, call.addr).value = call.value.lo % 256
       /\ index(mem, wrapping_add(call.addr, U(1))).value = call.value.lo \div 256
       /\ index(mem, wrapping_add(call.addr, U(2))).value = call.value.hi % 256
       /\ index(mem, wrapping_add(call.addr, U(3))).value = call.value.hi \div 256
       /\ fetch_halfword(mem, call.addr) =
              [panicked |-> FALSE, value |-> call.value.lo]
       /\ fetch_halfword(mem, wrapping_add(call.addr, U(2))) =
              [panicked |-> FALSE, value |-> call.value.hi]

\* C9 happens: 0x1234_5678 has been stored.
C9_Witness ==
    /\ call.name = "store_word"
    /\ ~panicked
    /\ call.value = W(4660, 22136)

\* C10: LW and SW at an address that is no multiple of 4 panic, LH, LHU and SH
\* at an odd address panic; LB, LBU and SB at an in-bounds address never panic,
\* and LH, LHU and SH at an in-bounds address that is 2 mod 4 do not panic.
C10_AccessAlignment ==
    (Fetched /\ LastInstr.op \in LoadOps \cup StoreOps)
    => /\ ( /\ LastInstr.op \in {"LW", "SW"}
            /\ EffectiveAddress(prev, LastInstr).lo % 4 # 0 ) => panicked
       /\ ( /\ LastInstr.op \in {"LH", "LHU", "SH"}
            /\ EffectiveAddress(prev, LastInstr).lo % 2 # 0 ) => panicked
       /\ ( /\ LastInstr.op \in {"LB", "LBU", "SB"}
            /\ usize_le(EffectiveAddress(prev, LastInstr), MEM_SIZE - 1) ) => ~panicked
       /\ ( /\ LastInstr.op \in {"LH", "LHU", "SH"}
            /\ EffectiveAddress(prev, LastInstr).lo % 4 = 2
            /\ usize_le(EffectiveAddress(prev, LastInstr), MEM_SIZE - 2) ) => ~panicked

\* C10 happens: a LW at an in-bounds address that is no multiple of 4 has
\* panicked.
C10_Witness ==
    /\ Fetched
    /\ panicked
    /\ LastInstr.op = "LW"
    /\ EffectiveAddress(prev, LastInstr).lo % 4 # 0
    /\ usize_le(EffectiveAddress(prev, LastInstr), MEM_SIZE - 4)

\* C11: a step whose instruction fetch, load or store touches a byte at an
\* index >= MEM_SIZE panics and leaves every byte of memory as it was; so with
\* pc beyond memory, and with an address that wraps below 0.
C11_OutOfBoundsFaults ==
    Stepped =>
    /\ ~usize_le(prev.pc, MEM_SIZE - 4) => (panicked /\ mem = prev.mem)
    /\ (Fetched /\ LastInstr.op \in LoadOps \cup StoreOps) =>
       /\ ( /\ LastInstr.op \in {"LW", "SW"}
            /\ ~usize_le(EffectiveAddress(prev, LastInstr), MEM_SIZE - 4) )
          => (panicked /\ mem = prev.mem)
       /\ ( /\ LastInstr.op \in {"LH", "LHU", "SH"}
            /\ ~usize_le(EffectiveAddress(prev, LastInstr), MEM_SIZE - 2) )
          => (panicked /\ mem = prev.mem)
       /\ ( /\ LastInstr.op \in {"LB", "LBU", "SB"}
            /\ ~usize_le(EffectiveAddress(prev, LastInstr), MEM_SIZE - 1) )
          => (panicked /\ mem = prev.mem)

\* C11 happens: SW x2,-4(x1) with reg[1] = 0 has panicked, its address
\* 0xFFFF_FFFC a multiple of 4.
C11_Witness ==
    /\ Fetched
    /\ panicked
    /\ LastInstr.op = "SW"
    /\ prev.reg[LastInstr.rs1] = U(0)
    /\ LastInstr.offset = -4
    /\ prev.reg[LastInstr.rs2] # U(0)

\* The eleven values of the low seven bits that name an opcode class.
OpcodePatterns == { 19, 55, 23, 51, 111, 103, 99, 3, 35, 15, 115 }

\* C12: a step whose fetched word has low seven bits outside the eleven
\* opcode patterns panics with the registers, the pc and memory as they were
\* before the step; so does a step onto a never-written, all-zero word.
C12_UnknownOpcodeFaults ==
    (Fetched /\ LastWord.lo % 128 \notin OpcodePatterns)
    => /\ panicked
       /\ reg = prev.reg
       /\ pc = prev.pc
       /\ mem = prev.mem

\* C12 happens: the hart has run off its program onto the word 0 at address
\* 12, with x1 and x2 set.
C12_Witness ==
    /\ Fetched
    /\ panicked
    /\ prev.pc = U(12)
    /\ LastWord = U(0)
    /\ prev.reg[1] # U(0)

\* The fields of an instruction word: bits 6-0, 14-12 and 31-25.
OpcodeBits(w) == w.lo % 128
Funct3Bits(w) == (w.lo \div 4096) % 8
Funct7Bits(w) == w.hi \div 512

\* The ten (funct3, funct7) pairs listed for OPRR: ADD, SUB, SLT, SLTU, AND,
\* OR, XOR, SLL, SRL, SRA.
ListedOPRR ==
    { <<0, 0>>, <<0, 32>>, <<2, 0>>, <<3, 0>>, <<7, 0>>, <<6, 0>>, <<4, 0>>, <<1, 0>>,
      <<5, 0>>, <<5, 32>> }

\* A word of a recognized opcode whose funct3/funct7 are not listed for it.
InvalidFunctWord(w) ==
    \/ OpcodeBits(w) = 51 /\ <<Funct3Bits(w), Funct7Bits(w)>> \notin ListedOPRR
    \/ OpcodeBits(w) = 99 /\ Funct3Bits(w) \in {2, 3}
    \/ OpcodeBits(w) = 3 /\ Funct3Bits(w) \in {3, 6, 7}
    \/ OpcodeBits(w) = 35 /\ Funct3Bits(w) \notin {0, 1, 2}
    \/ OpcodeBits(w) = 103 /\ Funct3Bits(w) # 0

\* C13: decoding a word of opcode OPRR, BRANCH, LOAD, STORE or JALR whose
\* funct3/funct7 combination is not among the listed ones panics.
C13_InvalidFunctFaults ==
    (call.name = "decode" /\ InvalidFunctWord(call.addr))
    => (call.value.op = "panic" /\ panicked)

\* C13 happens: the decoder has panicked on an OPRR word with funct7 0000001.
C13_Witness ==
    /\ call.name = "decode"
    /\ panicked
    /\ OpcodeBits(call.addr) = 51
    /\ Funct3Bits(call.addr) = 0
    /\ Funct7Bits(call.addr) = 1

\* A word of a recognized class whose funct fields are among the listed ones.
ValidWord(w) ==
    \/ OpcodeBits(w) \in {55, 23, 111}
    \/ OpcodeBits(w) = 19 /\ Funct3Bits(w) \notin {1, 5}
    \/ OpcodeBits(w) = 19 /\ Funct3Bits(w) = 1 /\ Funct7Bits(w) = 0
    \/ OpcodeBits(w) = 19 /\ Funct3Bits(w) = 5 /\ Funct7Bits(w) \in {0, 32}
    \/ OpcodeBits(w) = 51 /\ <<Funct3Bits(w), Funct7Bits(w)>> \in ListedOPRR
    \/ OpcodeBits(w) = 103 /\ Funct3Bits(w) = 0
    \/ OpcodeBits(w) = 99 /\ Funct3Bits(w) \notin {2, 3}
    \/ OpcodeBits(w) = 3 /\ Funct3Bits(w) \in {0, 1, 2, 4, 5}
    \/ OpcodeBits(w) = 35 /\ Funct3Bits(w) \in {0, 1, 2}

\* C14: for a word of a recognized class with valid funct fields exactly one
\* test of parse_instruction holds and the decoder returns that mnemonic; for
\* no word do two tests hold, so the order of the tests decides nothing; and
\* decoding the word again gives an equal Instruction.
C14_OneVariant ==
    call.name = "decode" =>
    /\ Cardinality(parse_instruction_conditions(get_encoding(call.addr))) <= 1
    /\ ValidWord(call.addr) =>
           parse_instruction_conditions(get_encoding(call.addr)) = { call.value.op }
    /\ call.value.op = "panic" <=>
           parse_instruction_conditions(get_encoding(call.addr)) = {}
    /\ decode(call.addr) = call.value

\* C14 happens: a word with funct3 101 and top bits 0100000 has been decoded
\* as SRAI.
C14_Witness ==
    /\ call.name = "decode"
    /\ OpcodeBits(call.addr) = 19
    /\ Funct3Bits(call.addr) = 5
    /\ Funct7Bits(call.addr) = 32
    /\ call.value.op = "SRAI"

\* The class of each of the eleven patterns, "None" for any other value.
OpcodeClass(v) ==
    CASE v = 19 -> "OPIMM"
      [] v = 55 -> "LUI"
      [] v = 23 -> "AUIPC"
      [] v = 51 -> "OPRR"
      [] v = 111 -> "JAL"
      [] v = 103 -> "JALR"
      [] v = 99 -> "BRANCH"
      [] v = 3 -> "LOAD"
      [] v = 35 -> "STORE"
      [] v = 15 -> "FENCE"
      [] v = 115 -> "SYSTEM"
      [] OTHER -> "None"

\* C15: from_value maps the eleven patterns to their classes and every other
\* value to None, from_value(op.value()) is op for every class, and
\* get_opcode of a word is from_value of its low seven bits alone.
C15_OpcodeMapping ==
    /\ call.name = "from_value" =>
        /\ call.value = OpcodeClass(call.addr)
        /\ \A op \in { "OPIMM", "LUI", "AUIPC", "OPRR", "JAL", "JALR", "BRANCH", "LOAD",
                       "STORE", "FENCE", "SYSTEM" } :
               call.addr = OPCODE_value(op) => call.value = op
    /\ call.name = "get_opcode" => call.value = OpcodeClass(call.addr.lo % 128)

\* C15 happens: get_opcode has returned JALR for a word with all the bits
\* above the low seven set.
C15_Witness ==
    /\ call.name = "get_opcode"
    /\ call.addr = W(65535, 65535 - 127 + 103)
    /\ call.value = "JALR"

\* C16: for N in {5, 8, 12, 13, 16, 20, 21, 32} and an N-bit v, the low N bits
\* of sign_extend_u32(v, N) are v and the bits above bit N-1 all equal bit
\* N-1 of v: the result is v modulo 2^N and lies in -2^(N-1) .. 2^(N-1) - 1.
C16_SignExtend ==
    ( /\ call.name = "sign_extend_u32"
      /\ call.addr.bits \in {5, 8, 12, 13, 16, 20, 21, 32} ) =>
    /\ ~panicked
    /\ IF call.addr.bits < 32
       THEN /\ call.value % (2 ^ call.addr.bits) = as_nat(call.addr.value)
            /\ call.value >= -(2 ^ (call.addr.bits - 1))
            /\ call.value < 2 ^ (call.addr.bits - 1)
       ELSE /\ as_u32(call.value) = call.addr.value
            /\ (call.value < 0) <=> (call.addr.value.hi >= 32768)

\* C16 happens: the 13-bit value with only bit 12 set has been extended to
\* -4096.
C16_Witness ==
    /\ call.name = "sign_extend_u32"
    /\ ~panicked
    /\ call.addr.bits = 13
    /\ call.addr.value = U(4096)
    /\ call.value = -4096

\* The 12-bit immediate of an I-type word (bits 31-20) as a signed integer,
\* and its low five bits, the shift amount of a shift immediate.
Imm12(w) == IF w.hi \div 16 >= 2048 THEN (w.hi \div 16) - 4096 ELSE w.hi \div 16
Shamt(w) == (w.hi \div 16) % 32

\* C17: ADD, SUB and ADDI never panic and, for rd # 0, leave in reg[rd] the
\* sum or difference modulo 2^32 of reg[rs1] and the operand: 0xFFFF_FFFF + 1
\* is 0, 0 - 1 is 0xFFFF_FFFF, and ADDI rd, x0, -2048 gives 0xFFFF_F800.
C17_WrappingArithmetic ==
    (Fetched /\ LastInstr.op \in {"ADD", "SUB", "ADDI"}) =>
    /\ ~panicked
    /\ LastInstr.rd # 0 =>
        /\ LastInstr.op = "ADD" =>
            /\ reg[LastInstr.rd] =
                   wrapping_add(prev.reg[LastInstr.rs1], prev.reg[LastInstr.rs2])
            /\ ( /\ prev.reg[LastInstr.rs1] = W(65535, 65535)
                 /\ prev.reg[LastInstr.rs2] = U(1) ) => reg[LastInstr.rd] = U(0)
        /\ LastInstr.op = "SUB" =>
            /\ reg[LastInstr.rd] =
                   wrapping_sub(prev.reg[LastInstr.rs1], prev.reg[LastInstr.rs2])
            /\ ( /\ prev.reg[LastInstr.rs1] = U(0)
                 /\ prev.reg[LastInstr.rs2] = U(1) ) => reg[LastInstr.rd] = W(65535, 65535)
        /\ LastInstr.op = "ADDI" =>
            /\ reg[LastInstr.rd] =
                   wrapping_add(prev.reg[LastInstr.rs1], as_u32(Imm12(LastWord)))
            /\ (LastInstr.rs1 = 0 /\ Imm12(LastWord) = -2048)
               => reg[LastInstr.rd] = W(65535, 63488)

\* C17 happens: ADD of 0xFFFF_FFFF and 1 has completed with 0 in rd.
C17_Witness ==
    /\ Completed
    /\ LastInstr.op = "ADD"
    /\ LastInstr.rd # 0
    /\ prev.reg[LastInstr.rs1] = W(65535, 65535)
    /\ prev.reg[LastInstr.rs2] = U(1)
    /\ reg[LastInstr.rd] = U(0)

\* C18: for rd # 0, SLT and SLTI write 1 when reg[rs1] is less than the operand
\* as signed 32-bit values and 0 otherwise; SLTU and SLTIU the same on unsigned
\* values, SLTIU against the sign-extended immediate read as unsigned, so with
\* immediate 0xFFF it writes 1 unless reg[rs1] is 0xFFFF_FFFF.
C18_SetLessThan ==
    ( /\ Fetched
      /\ LastInstr.op \in {"SLT", "SLTI", "SLTU", "STLIU"}
      /\ LastInstr.rd # 0 ) =>
    /\ ~panicked
    /\ reg[LastInstr.rd] \in {U(0), U(1)}
    /\ LastInstr.op = "SLT" =>
           (reg[LastInstr.rd] = U(1)) <=>
               (as_i32(prev.reg[LastInstr.rs1]) < as_i32(prev.reg[LastInstr.rs2]))
    /\ LastInstr.op = "SLTI" =>
           (reg[LastInstr.rd] = U(1)) <=> (as_i32(prev.reg[LastInstr.rs1]) < Imm12(LastWord))
    /\ LastInstr.op = "SLTU" =>
           (reg[LastInstr.rd] = U(1)) <=>
               lt_u32(prev.reg[LastInstr.rs1], prev.reg[LastInstr.rs2])
    /\ LastInstr.op = "STLIU" =>
        /\ (reg[LastInstr.rd] = U(1)) <=>
               lt_u32(prev.reg[LastInstr.rs1], as_u32(Imm12(LastWord)))
        /\ Imm12(LastWord) = -1 =>
               ((reg[LastInstr.rd] = U(1)) <=> (prev.reg[LastInstr.rs1] # W(65535, 65535)))

\* C18 happens: SLTIU with immediate 0xFFF on reg[rs1] = 1 has written 1.
C18_Witness ==
    /\ Completed
    /\ LastInstr.op = "STLIU"
    /\ LastInstr.rd # 0
    /\ Imm12(LastWord) = -1
    /\ prev.reg[LastInstr.rs1] = U(1)
    /\ reg[LastInstr.rd] = U(1)

\* The amount of the shift the last step made: the low five bits of reg[rs2]
\* for SLL, SRL and SRA, the low five bits of the immediate otherwise.
ShiftAmount ==
    IF LastInstr.op \in {"SLL", "SRL", "SRA"}
    THEN prev.reg[LastInstr.rs2].lo % 32
    ELSE Shamt(LastWord)

\* The u32 v has its n high bits zero / its n high bits one / its n low bits
\* zero, for 0 <= n <= 32.
HighBitsZero(v, n) ==
    IF n >= 16 THEN v.hi = 0 /\ v.lo < 2 ^ (32 - n) ELSE v.hi < 2 ^ (16 - n)
HighBitsOne(v, n) ==
    IF n >= 16 THEN v.hi = 65535 /\ v.lo >= 65536 - 2 ^ (32 - n)
    ELSE v.hi >= 65536 - 2 ^ (16 - n)
LowBitsZero(v, n) ==
    IF n >= 16 THEN v.lo = 0 /\ v.hi % (2 ^ (n - 16)) = 0 ELSE v.lo % (2 ^ n) = 0

\* C19: a shift never panics; for rd # 0 it shifts reg[rs1] by the low five
\* bits of reg[rs2] (35 shifts by 3) or of the immediate; SLL and SLLI leave
\* zeros in the low bits, SRL and SRLI in the high bits, and SRA and SRAI
\* leave copies of bit 31 of reg[rs1] in the high bits, so 0xFFFF_FFFF
\* stays 0xFFFF_FFFF.
C19_Shifts ==
    (Fetched /\ LastInstr.op \in {"SLL", "SRL", "SRA", "SLLI", "SRLI", "SRAI"}) =>
    /\ ~panicked
    /\ LastInstr.rd # 0 =>
        /\ LastInstr.op \in {"SLL", "SLLI"} =>
            /\ reg[LastInstr.rd] = shl32(prev.reg[LastInstr.rs1], ShiftAmount)
            /\ LowBitsZero(reg[LastInstr.rd], ShiftAmount)
        /\ LastInstr.op \in {"SRL", "SRLI"} =>
            /\ reg[LastInstr.rd] = shr32(prev.reg[LastInstr.rs1], ShiftAmount)
            /\ HighBitsZero(reg[LastInstr.rd], ShiftAmount)
        /\ LastInstr.op \in {"SRA", "SRAI"} =>
            /\ shl32(reg[LastInstr.rd], ShiftAmount) =
                   shl32(shr32(prev.reg[LastInstr.rs1], ShiftAmount), ShiftAmount)
            /\ IF prev.reg[LastInstr.rs1].hi >= 32768
               THEN HighBitsOne(reg[LastInstr.rd], ShiftAmount + 1)
               ELSE HighBitsZero(reg[LastInstr.rd], ShiftAmount + 1)
            /\ prev.reg[LastInstr.rs1] = W(65535, 65535)
               => reg[LastInstr.rd] = W(65535, 65535)
        /\ (LastInstr.op = "SLL" /\ prev.reg[LastInstr.rs2] = U(35))
           => reg[LastInstr.rd] = shl32(prev.reg[LastInstr.rs1], 3)

\* C19 happens: SRA of 0x8000_0000 by reg[rs2] = 35 has written 0xF000_0000.
C19_Witness ==
    /\ Completed
    /\ LastInstr.op = "SRA"
    /\ LastInstr.rd # 0
    /\ prev.reg[LastInstr.rs2] = U(35)
    /\ prev.reg[LastInstr.rs1] = W(32768, 0)
    /\ reg[LastInstr.rd] = W(61440, 0)

\* The byte and the little-endian halfword that memory m holds at address a.
ByteAt(m, a) == mem_get(m, as_nat(a))
HalfwordAt(m, a) == mem_get(m, as_nat(a)) + 256 * mem_get(m, as_nat(a) + 1)

\* C20: a completed LBU writes the byte at the address zero-extended and LB
\* the same byte with bit 7 copied into bits 31-8; a completed LHU writes the
\* halfword zero-extended and LH the same halfword with bit 15 copied into
\* bits 31-16; so the signed and the unsigned load agree on the low bits.
C20_LoadExtension ==
    ( /\ Completed
      /\ LastInstr.op \in {"LB", "LBU", "LH", "LHU"}
      /\ LastInstr.rd # 0 ) =>
    /\ LastInstr.op = "LBU" =>
           reg[LastInstr.rd] = W(0, ByteAt(prev.mem, EffectiveAddress(prev, LastInstr)))
    /\ LastInstr.op = "LB" =>
           reg[LastInstr.rd] =
               IF ByteAt(prev.mem, EffectiveAddress(prev, LastInstr)) >= 128
               THEN W(65535, 65280 + ByteAt(prev.mem, EffectiveAddress(prev, LastInstr)))
               ELSE W(0, ByteAt(prev.mem, EffectiveAddress(prev, LastInstr)))
    /\ LastInstr.op = "LHU" =>
           reg[LastInstr.rd] = W(0, HalfwordAt(prev.mem, EffectiveAddress(prev, LastInstr)))
    /\ LastInstr.op = "LH" =>
           reg[LastInstr.rd] =
               W(IF HalfwordAt(prev.mem, EffectiveAddress(prev, LastInstr)) >= 32768
                 THEN 65535 ELSE 0,
                 HalfwordAt(prev.mem, EffectiveAddress(prev, LastInstr)))

\* C20 happens: LB has loaded a byte with bit 7 set from an address past the
\* first word.
C20_Witness ==
    /\ Completed
    /\ LastInstr.op = "LB"
    /\ LastInstr.rd # 0
    /\ ByteAt(prev.mem, EffectiveAddress(prev, LastInstr)) >= 128
    /\ as_nat(EffectiveAddress(prev, LastInstr)) >= 4
    /\ reg[LastInstr.rd].hi = 65535

\* Byte k (0 the lowest) of the 32-bit value v, and the number of bytes that
\* store operation op writes.
ByteOf(v, k) ==
    CASE k = 0 -> v.lo % 256
      [] k = 1 -> v.lo \div 256
      [] k = 2 -> v.hi % 256
      [] k = 3 -> v.hi \div 256
StoreWidth(op) == CASE op = "SW" -> 4 [] op = "SH" -> 2 [] op = "SB" -> 1

\* C21: a completed SW, SH or SB leaves every register as it was and changes
\* memory in exactly the 4, 2 or 1 bytes from the effective address
\* (reg[rs1] + offset) mod 2^32 on, which then hold the low bytes of reg[rs2]
\* in little-endian order; every other byte of memory is as before.
C21_StoreWidth ==
    ( Completed /\ LastInstr.op \in StoreOps ) =>
    /\ reg = prev.reg
    /\ \A k \in 0 .. StoreWidth(LastInstr.op) - 1 :
           mem_get(mem, as_nat(EffectiveAddress(prev, LastInstr)) + k) =
               ByteOf(prev.reg[LastInstr.rs2], k)
    /\ \A a \in DOMAIN mem \cup DOMAIN prev.mem :
           ( a - as_nat(EffectiveAddress(prev, LastInstr))
                 \notin 0 .. StoreWidth(LastInstr.op) - 1 ) =>
           mem_get(mem, a) = mem_get(prev.mem, a)

\* C21 happens: SB has stored the low byte of 0xFFFFF8A5 past the program,
\* and the byte after it is still zero.
C21_Witness ==
    /\ Completed
    /\ LastInstr.op = "SB"
    /\ prev.reg[LastInstr.rs2] = W(65535, 63653)
    /\ as_nat(EffectiveAddress(prev, LastInstr)) >= 12
    /\ mem_get(mem, as_nat(EffectiveAddress(prev, LastInstr))) = 165
    /\ mem_get(mem, as_nat(EffectiveAddress(prev, LastInstr)) + 1) = 0

\* The instruction of the clock cycle before the last one: prev holds the
\* word that cycle fetched.  A store writes no register, so prev.reg has the
\* registers that instruction read.
PrevInstr == decode(prev.current_instruction)

\* C22: when a completed SW of v = reg[rs2] is followed by a completed LW from
\* the same effective address, reg[rd] is v; SH followed by LHU leaves
\* v mod 2^16 and SB followed by LBU leaves v mod 2^8 (rd # 0).
C22_StoreLoadRoundTrip ==
    ( /\ steps >= 2
      /\ Completed
      /\ PrevInstr.op \in StoreOps
      /\ LastInstr.op \in {"LW", "LHU", "LBU"}
      /\ LastInstr.rd # 0
      /\ EffectiveAddress(prev, PrevInstr) = EffectiveAddress(prev, LastInstr) ) =>
    /\ (PrevInstr.op = "SW" /\ LastInstr.op = "LW") =>
           reg[LastInstr.rd] = prev.reg[PrevInstr.rs2]
    /\ (PrevInstr.op = "SH" /\ LastInstr.op = "LHU") =>
           reg[LastInstr.rd] = W(0, prev.reg[PrevInstr.rs2].lo)
    /\ (PrevInstr.op = "SB" /\ LastInstr.op = "LBU") =>
           reg[LastInstr.rd] = W(0, prev.reg[PrevInstr.rs2].lo % 256)

\* C22 happens: SH of 0xFFFFF8A5 and then LHU from the same address, which
\* leaves 0x0000F8A5.
C22_Witness ==
    /\ steps >= 2
    /\ Completed
    /\ PrevInstr.op = "SH"
    /\ LastInstr.op = "LHU"
    /\ LastInstr.rd # 0
    /\ EffectiveAddress(prev, PrevInstr) = EffectiveAddress(prev, LastInstr)
    /\ prev.reg[PrevInstr.rs2] = W(65535, 63653)
    /\ reg[LastInstr.rd] = W(0, 63653)

\* C23: when a completed SW has written the word v = reg[rs2] at the address
\* the pc holds after it, the next clock cycle fetches v, and ends as the
\* decoding and execution of v from the state before it ends.
C23_StoreVisibleToFetch ==
    ( /\ steps >= 2
      /\ PrevInstr.op = "SW"
      /\ EffectiveAddress(prev, PrevInstr) = prev.pc ) =>
    /\ LastWord = prev.reg[PrevInstr.rs2]
    /\ current_instruction = prev.reg[PrevInstr.rs2]
    /\ State = then_execute([prev EXCEPT !.current_instruction = prev.reg[PrevInstr.rs2]])

\* C23 happens: SW at address 8 has replaced the word at address 12 by
\* 0x00000023 (SB x0,0(x0)), and the next cycle has run that SB: it has
\* cleared the byte at address 0 and moved the pc to 16.
C23_Witness ==
    /\ steps >= 2
    /\ PrevInstr.op = "SW"
    /\ EffectiveAddress(prev, PrevInstr) = prev.pc
    /\ prev.reg[PrevInstr.rs2] = U(35)
    /\ Completed
    /\ LastInstr.op = "SB"
    /\ mem_get(prev.mem, 0) # 0
    /\ mem_get(mem, 0) = 0
    /\ pc = U(16)

\* C24: BEQ is taken when reg[rs1] = reg[rs2] and BNE when they differ, BLT
\* and BGE compare the two as signed and BLTU and BGEU as unsigned values.  A
\* branch at pc P with offset o that is taken to a target divisible by 4
\* completes with pc = (P + o) mod 2^32, one that is not taken completes with
\* pc = P + 4, and in either case, as when the target is misaligned, no
\* register and no byte of memory changes.
C24_Branches ==
    ( Fetched /\ LastInstr.op \in BranchOps ) =>
    /\ reg = prev.reg
    /\ mem = prev.mem
    /\ IF BranchHolds(prev, LastInstr)
       THEN usize_mod(wrapping_add_signed(prev.pc, LastInstr.offset), 4) = 0 =>
                /\ ~panicked
                /\ pc = wrapping_add_signed(prev.pc, LastInstr.offset)
       ELSE /\ ~panicked
            /\ pc = wrapping_add(prev.pc, U(4))

\* C24 happens: BLT has been taken forward on -1 < 1, which as unsigned
\* values compare the other way.
C24_Witness ==
    /\ Completed
    /\ LastInstr.op = "BLT"
    /\ prev.reg[LastInstr.rs1] = W(65535, 65535)
    /\ prev.reg[LastInstr.rs2] = U(1)
    /\ LastInstr.offset = 8
    /\ pc = wrapping_add(prev.pc, U(8))

\* Bits 31-12 of the word w with twelve zero bits below them: imm20 << 12.
UpperImm(w) == [hi |-> w.hi, lo |-> w.lo - (w.lo % 4096)]

\* C25: a completed AUIPC at pc P with rd # 0 leaves
\* reg[rd] = (P + (imm20 << 12)) mod 2^32, P the address of the AUIPC itself;
\* a completed LUI leaves reg[rd] = imm20 << 12, whose low 12 bits are zero,
\* whatever rd held before; no other register changes.
C25_UpperImmediates ==
    ( Completed /\ LastInstr.op \in {"LUI", "AUIPC"} /\ LastInstr.rd # 0 ) =>
    /\ LastInstr.op = "LUI" =>
           /\ reg[LastInstr.rd] = UpperImm(LastWord)
           /\ reg[LastInstr.rd].lo % 4096 = 0
    /\ LastInstr.op = "AUIPC" =>
           reg[LastInstr.rd] = wrapping_add(prev.pc, UpperImm(LastWord))
    /\ \A r \in 0 .. XLEN - 1 : r # LastInstr.rd => reg[r] = prev.reg[r]

\* C25 happens: AUIPC x1,0x12345 at address 8 has replaced 0xFFFFFFFF in x1
\* by 0x12345008.
C25_Witness ==
    /\ Completed
    /\ LastInstr.op = "AUIPC"
    /\ LastInstr.rd = 1
    /\ prev.pc = U(8)
    /\ prev.reg[1] = W(65535, 65535)
    /\ reg[1] = W(4660, 20488)

\* Memory m is as the loader leaves it for program p at address 0.  The
\* loaded programs differ pairwise, and a run is the clock cycles from reset
\* on one of them, so a run whose memory has not changed is known by it.
Holds(m, p) == m = load_program(Memory_new, p, Len(p))

\* The word that memory holds at the aligned address a.
WordAt(a) == fetch_word(mem, U(a)).value

\* C26: with ADDI x10,x0,5; ADDI x11,x0,7; ADD x12,x10,x11; SW x12,0(x0) at
\* addresses 0, 4, 8, 12, the hart after exactly four clock cycles has
\* reg[12] = 12, the word 12 at address 0, and pc = 16, without a fault.
C26_AddAndStore ==
    ( steps = 4 /\ Holds(prev.mem, StoreSumProgram) ) =>
    /\ ~panicked
    /\ reg[12] = U(12)
    /\ WordAt(0) = U(12)
    /\ pc = U(16)

\* C26 happens: the fourth cycle of that program has run its SW.
C26_Witness ==
    /\ steps = 4
    /\ Holds(prev.mem, StoreSumProgram)
    /\ \A k \in 2 .. 4 : WordAt(4 * (k - 1)) = StoreSumProgram[k]
    /\ LastInstr.op = "SW"
    /\ reg[10] = U(5)
    /\ reg[11] = U(7)
    /\ reg[12] = U(12)
    /\ WordAt(0) = U(12)
    /\ pc = U(16)

\* C27: with the loop ADDI x1,x0,0; ADDI x2,x0,1; ADDI x3,x0,6; ADD x1,x1,x2;
\* ADDI x2,x2,1; BLT x2,x3,-8 at address 0, the first eighteen clock cycles
\* complete; the BLT runs in cycles 6, 9, 12, 15 and 18 only, is taken back
\* to address 12 in the first four of them and falls through to address 24
\* in the last; after exactly eighteen cycles reg[1] = 15 and reg[2] = 6.
C27_Loop ==
    ( steps \in 1 .. 18 /\ Holds(mem, LoopProgram) ) =>
    /\ ~panicked
    /\ LastInstr.op = "BLT" <=> steps \in {6, 9, 12, 15, 18}
    /\ steps \in {6, 9, 12, 15} => pc = U(12)
    /\ steps = 18 => (reg[1] = U(15) /\ reg[2] = U(6) /\ pc = U(24))

\* C27 happens: the eighteenth cycle of the loop program has run the BLT and
\* fallen through.
C27_Witness ==
    /\ steps = 18
    /\ Holds(mem, LoopProgram)
    /\ LastInstr.op = "BLT"
    /\ reg[1] = U(15)
    /\ reg[2] = U(6)
    /\ reg[3] = U(6)
    /\ pc = U(24)

\* C28: with ADDI x10,x0,5; ADDI x11,x0,3; JAL x1,+8; ADDI x0,x0,0;
\* ADD x10,x10,x11; JALR x0,0(x1) at address 0, the JAL at address 8 goes to
\* 0x10 with the link 0x0C, and after exactly five clock cycles, the last the
\* JALR at 0x14, reg[10] = 8, reg[1] = 0x0C and pc = 0x0C.
C28_CallAndReturn ==
    Holds(mem, CallReturnProgram) =>
    /\ steps = 3 => (~panicked /\ pc = U(16) /\ reg[1] = U(12))
    /\ steps = 5 => (~panicked /\ reg[10] = U(8) /\ reg[1] = U(12) /\ pc = U(12))

\* C28 happens: the fifth cycle of that program has run the JALR at 0x14.
C28_Witness ==
    /\ steps = 5
    /\ Holds(mem, CallReturnProgram)
    /\ prev.pc = U(20)
    /\ LastInstr.op = "JALR"
    /\ reg[10] = U(8)
    /\ reg[1] = U(12)
    /\ pc = U(12)

\* C29: a fault is final.  From a state in which a clock cycle has faulted no
\* further clock cycle is made: the registers, the pc, the memory and the
\* count of cycles stay as they are and the fault stays, so no fault is
\* retried or turned into a completed cycle.
C29_FaultsTerminal ==
    [][ panicked =>
            /\ panicked'
            /\ reg' = reg
            /\ pc' = pc
            /\ mem' = mem
            /\ steps' = steps ]_vars

\* C29 happens: the third cycle has faulted on its store, after two that
\* completed, with cycles left before the bound on the run.
C29_Witness ==
    /\ panicked
    /\ steps = 3
    /\ steps < MaxSteps
    /\ LastInstr.op \in StoreOps
    /\ pc = U(8)

\* C30: a clock cycle whose fetched word has the low seven bits 0001111 or
\* 1110011 has a word that OPCODE::get_opcode classifies as FENCE or SYSTEM,
\* and it faults in the decoder whatever the other 25 bits are: the word is
\* not executed as a no-op, the pc stays at the address of the word, and no
\* register and no byte of memory changes.
C30_FenceSystemFault ==
    ( Fetched /\ LastWord.lo % 128 \in {15, 115} ) =>
    /\ get_opcode(LastWord) = (IF LastWord.lo % 128 = 15 THEN "FENCE" ELSE "SYSTEM")
    /\ get_encoding(LastWord).variant = "panic"
    /\ panicked
    /\ pc = prev.pc
    /\ reg = prev.reg
    /\ mem = prev.mem

\* C30 happens: the third cycle has fetched CSRRW x3,mstatus,x1 (0x300091F3)
\* and faulted with the pc still at 8.
C30_Witness ==
    /\ steps = 3
    /\ Fetched
    /\ LastWord = W(12288, 37363)
    /\ get_opcode(LastWord) = "SYSTEM"
    /\ panicked
    /\ pc = U(8)

\* C31 as claimed: a JAL or JALR step whose target is no multiple of 4 faults
\* with reg[rd] still holding the value it had before the step.
C31_LinkAfterAlignmentCheck ==
    ( /\ Fetched
      /\ LastInstr.op \in JumpOps
      /\ ComputedTarget(prev, LastInstr).lo % 4 # 0 ) =>
    /\ panicked
    /\ reg[LastInstr.rd] = prev.reg[LastInstr.rd]

\* C32: a branch whose condition does not hold completes with pc advanced by
\* 4 also when pc + offset is no multiple of 4: its offset is never a reason
\* for a fault.
C32_UntakenBranchNeverFaults ==
    ( /\ Fetched
      /\ LastInstr.op \in BranchOps
      /\ ~BranchHolds(prev, LastInstr)
      /\ wrapping_add_signed(prev.pc, LastInstr.offset).lo % 4 # 0 ) =>
    /\ ~panicked
    /\ pc = wrapping_add(prev.pc, U(4))

\* C32 happens: BEQ with offset +2 on registers that differ has completed
\* and the pc has gone from 8 to 12.
C32_Witness ==
    /\ Completed
    /\ LastInstr.op = "BEQ"
    /\ LastInstr.offset = 2
    /\ prev.reg[LastInstr.rs1] # prev.reg[LastInstr.rs2]
    /\ prev.pc = U(8)
    /\ pc = U(12)

\* C33: from reset, where pc = 0, every state that clock cycles reach without
\* a fault has a pc that is a multiple of 4, and so had the state each cycle
\* started from: the assertion addr % 4 == 0 of fetch_word holds at every
\* instruction fetch.
C33_PcAligned ==
    /\ ~panicked => usize_mod(pc, 4) = 0
    /\ Stepped => usize_mod(prev.pc, 4) = 0

\* C33 happens: JALR has completed on reg[rs1] + offset odd, and the pc it
\* left is a multiple of 4.
C33_Witness ==
    /\ Completed
    /\ LastInstr.op = "JALR"
    /\ wrapping_add_signed(prev.reg[LastInstr.rs1], LastInstr.offset).lo % 2 = 1
    /\ usize_mod(pc, 4) = 0
    /\ pc # wrapping_add(prev.pc, U(4))

\* C34: the pc moves once in a step.  A JAL, a JALR or a taken branch whose
\* target T is a multiple of 4 completes with pc = T, neither T - 4 nor
\* T + 4; so it does for T = 0, where the value between the arm and the
\* common increment is 0xFFFFFFFC.
C34_PcAdvancedOnce ==
    ( /\ Fetched
      /\ LastInstr.op # "panic"
      /\ Transfers(prev, LastInstr)
      /\ usize_mod(ComputedTarget(prev, LastInstr), 4) = 0 ) =>
    /\ ~panicked
    /\ pc = ComputedTarget(prev, LastInstr)
    /\ pc # wrapping_add(ComputedTarget(prev, LastInstr), U(4))
    /\ pc # wrapping_sub(ComputedTarget(prev, LastInstr), U(4))

\* C34 happens: JAL at address 8 with offset -8 has completed with pc = 0.
C34_Witness ==
    /\ Completed
    /\ LastInstr.op = "JAL"
    /\ prev.pc = U(8)
    /\ LastInstr.offset = -8
    /\ ComputedTarget(prev, LastInstr) = U(0)
    /\ wrapping_sub(ComputedTarget(prev, LastInstr), U(4)) = W(65535, 65532)
    /\ pc = U(0)

\* The access of load op at address a passes the assertions of Memory: the
\* address a multiple of the width and the last byte below MEM_SIZE.
LoadAccessOk(op, a) ==
    CASE op = "LW" -> usize_mod(a, 4) = 0 /\ usize_le(a, MEM_SIZE - 4)
      [] op \in {"LH", "LHU"} -> usize_mod(a, 2) = 0 /\ usize_le(a, MEM_SIZE - 2)
      [] op \in {"LB", "LBU"} -> usize_le(a, MEM_SIZE - 1)

\* C35: a load faults exactly when its effective address is misaligned for
\* its width or out of bounds, whether rd is x0 or not; a load with rd = 0
\* that does not fault completes with every register as before.
C35_LoadToX0 ==
    ( Fetched /\ LastInstr.op \in LoadOps ) =>
    /\ panicked <=> ~LoadAccessOk(LastInstr.op, EffectiveAddress(prev, LastInstr))
    /\ (LastInstr.rd = 0 /\ ~panicked) => (reg = prev.reg /\ reg[0] = U(0))

\* C35 happens: LW x0,1(x1) with reg[1] = 1 has faulted on its address 2,
\* which is in bounds and no multiple of 4.
C35_Witness ==
    /\ Fetched
    /\ panicked
    /\ LastInstr.op = "LW"
    /\ LastInstr.rd = 0
    /\ EffectiveAddress(prev, LastInstr) = U(2)
    /\ reg = prev.reg

\* C36: across any step a register changes only if the step has decoded an
\* instruction that names it as rd, and x0 never: at most one register
\* changes, branches and stores change none, and neither does a step that
\* faults before it executes.
C36_OnlyRdChanges ==
    Stepped =>
    \A r \in 0 .. XLEN - 1 :
        reg[r] # prev.reg[r] =>
            /\ Fetched
            /\ LastInstr.op \in RdOps
            /\ r = LastInstr.rd
            /\ r # 0

\* C36 happens: SUB has changed its rd while the two registers it read, both
\* nonzero, and all others keep their values.
C36_Witness ==
    /\ Completed
    /\ LastInstr.op = "SUB"
    /\ prev.reg[LastInstr.rs1] # U(0)
    /\ prev.reg[LastInstr.rs2] # U(0)
    /\ reg[LastInstr.rd] # prev.reg[LastInstr.rd]
    /\ \A r \in 0 .. XLEN - 1 : r # LastInstr.rd => reg[r] = prev.reg[r]

\* C37: memory changes only in a completed SW, SH or SB step: a step that
\* executes any other instruction, a load included, and a step that faults,
\* in its fetch, in the decoder or in a store, leaves every byte as it was.
C37_OnlyStoresWriteMemory ==
    Stepped =>
    ( mem # prev.mem => (Completed /\ LastInstr.op \in StoreOps) )

\* C37 happens: LBU has read a nonzero byte into its rd and memory is as
\* before.
C37_Witness ==
    /\ Completed
    /\ LastInstr.op = "LBU"
    /\ LastInstr.rd # 0
    /\ ByteAt(prev.mem, EffectiveAddress(prev, LastInstr)) # 0
    /\ reg[LastInstr.rd] # prev.reg[LastInstr.rd]
    /\ mem = prev.mem

\* C38: whatever word is decoded, the immediates of the instruction lie in
\* the range of their format: the immediates of OPIMM, JALR, loads and stores
\* in -2048 .. 2047, branch offsets even and in -4096 .. 4094, JAL offsets
\* even and in -2^20 .. 2^20 - 2, the immediates of LUI and AUIPC with twelve
\* zero bits at the bottom, shift amounts in 0 .. 31.  So `offset % 2 == 0`
\* holds of every JAL that reaches execute.
C38_ImmediateRanges ==
    ( call.name = "decode" /\ call.value.op # "panic" ) =>
    /\ call.value.op \in {"ADDI", "SLTI"} => call.value.imm \in -2048 .. 2047
    /\ call.value.op \in {"STLIU", "ANDI", "ORI", "XORI"} =>
           as_i32(call.value.imm) \in -2048 .. 2047
    /\ call.value.op \in {"JALR"} \cup LoadOps \cup StoreOps =>
           call.value.offset \in -2048 .. 2047
    /\ call.value.op \in BranchOps =>
           (call.value.offset \in -4096 .. 4094 /\ call.value.offset % 2 = 0)
    /\ call.value.op = "JAL" =>
           (call.value.offset \in -1048576 .. 1048574 /\ call.value.offset % 2 = 0)
    /\ call.value.op \in {"LUI", "AUIPC"} => call.value.imm.lo % 4096 = 0
    /\ call.value.op \in {"SLLI", "SRLI", "SRAI"} => call.value.shamt \in 0 .. 31

\* C38 happens: a JAL word with every immediate bit set but the sign has been
\* decoded to the offset 2^20 - 2.
C38_Witness ==
    /\ call.name = "decode"
    /\ call.value.op = "JAL"
    /\ call.addr.hi = 32767
    /\ call.value.offset = 1048574

\* main has come to its end: by a fault, or with the loop run out.
MainDone == panicked \/ steps = Len(instructions)

\* C39: main terminates.  With the N words of the program installed from
\* address 0 it makes at most N clock cycles, and exactly N unless one
\* faults, whatever the program does: a loop is cut off after N cycles, and
\* a cycle that fetches beyond the last word from memory that is still zero
\* faults.
C39_MainTerminates ==
    /\ [](steps <= Len(instructions))
    /\ []( ( /\ Fetched
             /\ ~usize_le(prev.pc, 4 * Len(instructions) - 4)
             /\ LastWord = U(0) ) => panicked )
    /\ <>[]MainDone

\* C39 happens: the loop program of six words has been stopped after six
\* cycles, without a fault, its branch taken back to address 12.
C39_Witness ==
    /\ instructions = LoopProgram
    /\ steps = Len(instructions)
    /\ ~panicked
    /\ LastInstr.op = "BLT"
    /\ pc = U(12)

====
